---- MODULE Spec2Model ----
(***************************************************************************)
(* Sentinel-AI: the adaptive mitigation and enforcement control loop.      *)
(*                                                                         *)
(* MitigationEngine (mitigation_engine.py), SDNController                  *)
(* (sdn_controller.py), the block/unblock helpers of app.py and            *)
(* PerformanceCache (performance_cache.py), as state machines.             *)
(*                                                                         *)
(* Numbers: confidences, thresholds and the load signal are per-mille      *)
(* integers (0.7 is 700); time.time() is the integer clock `now`.          *)
(***************************************************************************)
EXTENDS Integers, Sequences, FiniteSets, TLC

(***************************************************************************)
(* Bounds of the model.                                                    *)
(***************************************************************************)
\* the clock stops advancing here
MaxTime == 2
\* an active record is observed at most this many times
MaxPackets == 1
\* decisions that append to the history are cut off at this length
MaxHistLen == 2
\* worker threads running execute_mitigation at once
NWorkers == 2
\* timestamps handed to the rate tracker lie in 0..MaxStamp, MaxEvents per address
MaxStamp == 3
MaxEvents == 3
\* OnlineLearningEngine(feedback_window, retrain_threshold) is constructed small;
\* at most MaxFeedback samples are fed back
feedback_window == 3
retrain_threshold == 2
MaxFeedback == 5
\* feature vectors posted to /predict have up to MaxFeatures entries
MaxFeatures == 4
\* PerformanceCache(max_size, ttl) is constructed with a small capacity and lifetime
max_size == 2
ttl == 2
\* the cache is observed up to this time
MaxCacheTime == 5
\* config['block_duration'] (3600 s in the source), in clock ticks
block_duration == 1
\* config['max_history'] (1000 in the source)
max_history == 1

(***************************************************************************)
(* Inputs.                                                                 *)
(***************************************************************************)
\* flow_info['src_ip']; 'unknown' is the placeholder execute_mitigation
\* substitutes for a missing address
IPs == {"10.0.0.1", "10.0.0.2", "unknown"}
ValidIPs == {"10.0.0.1", "10.0.0.2"}
Predictions == {"ddos", "normal"}
\* every argument value the properties range over: the boundaries of the
\* thresholds among them, and a slice name that has no policy
Confidences == {0, 200, 320, 399, 400, 500, 630, 699, 700, 900, 950, 1000}
SliceTypes == {"eMBB", "URLLC", "mMTC", "V2X", "IndustrialIoT", "QUARANTINE"}
Loads == {500, 800, 900}
\* confidences on and next to the bars the policies produce
BoundaryConfidences == {255, 256, 257, 319, 320, 321, 383, 384, 447, 448, 559, 560, 719, 720, 721}
\* identities that name nobody: empty, 'unknown', 0.0.0.0, broadcast
PlaceholderIPs == {"", "unknown", "0.0.0.0", "255.255.255.255"}
\* the events the engine is driven with
EventConfidences == {200, 500, 900}
EventSlices == {"eMBB"}
EventLoads == {500}
\* what one controller request ends in after _make_request's retries: a 200
\* answer, or the exception of the last attempt (an HTTP error status or no
\* connection)
Outcomes == {"ok200", "error"}
\* what one HTTP attempt can end in: a 200 answer, an error status, no answer
Answers == {"ok200", "http500", "timeout"}
\* cache keys and values
Keys == {"k1", "k2", "k3"}
Values == {"v1", "v2"}

VARIABLES
    now,                 \* time.time()
    blocked_ips,         \* MitigationEngine.blocked_ips: ip -> record
    mitigation_history,  \* MitigationEngine.mitigation_history
    auto_unblock,        \* MitigationEngine.config['auto_unblock']
    rules,               \* flow table of the Ryu controller: <<ip, priority>>
    pc,                  \* where each worker thread stands in execute_mitigation
    wk,                  \* the locals of each worker thread
    install_calls,       \* add-requests the controller has received
    BLOCKED_IPS,         \* app.py: BLOCKED_IPS
    gw_last,             \* the gateway call just completed
    cache,               \* PerformanceCache.cache
    access_times,        \* PerformanceCache.access_times
    fresh,               \* per key: the time and value of a set() no call has followed
    timestamps,          \* RateTracker.timestamps: ip -> deque of timestamps
    recorded,            \* per ip: every timestamp handed to RateTracker.add, in order
    feedback_buffer,     \* OnlineLearningEngine.feedback_buffer
    total_predictions,   \* OnlineLearningEngine.total_predictions
    correct_predictions, \* OnlineLearningEngine.correct_predictions
    retrains_started,    \* threads started on _retrain_model
    fed,                 \* every add_feedback call made so far, in order
    rq,                  \* the _make_request call in progress
    dq                   \* a decision worked out for given inputs

engineVars == <<now, blocked_ips, mitigation_history, auto_unblock, rules>>
engineVarsButRules == <<now, blocked_ips, mitigation_history, auto_unblock>>
engineVarsButNow == <<blocked_ips, mitigation_history, auto_unblock, rules>>
workerVars == <<pc, wk, install_calls>>
gatewayVars == <<BLOCKED_IPS, gw_last>>
cacheVars == <<cache, access_times, fresh>>
rateVars == <<timestamps, recorded>>
feedbackVars == <<feedback_buffer, total_predictions, correct_predictions, retrains_started,
                  fed>>
sideVars == <<rateVars, feedbackVars, rq, dq>>
vars == <<now, blocked_ips, mitigation_history, auto_unblock, rules, pc, wk, install_calls,
          BLOCKED_IPS, gw_last, cache, access_times, fresh, timestamps, recorded,
          feedback_buffer, total_predictions, correct_predictions, retrains_started, fed,
          rq, dq>>

(***************************************************************************)
(* Dictionaries.                                                           *)
(***************************************************************************)
Put(d, k, v) == [x \in (DOMAIN d) \cup {k} |-> IF x = k THEN v ELSE d[x]]
Del(d, k) == [x \in (DOMAIN d) \ {k} |-> d[x]]
EmptyDict == [x \in {} |-> 0]

(***************************************************************************)
(* SDNController and the Ryu flow table behind it.                         *)
(***************************************************************************)
BLOCK_PRIORITY == 60000
THROTTLE_PRIORITY == 55000
retry_count == 3

\* _make_request: up to retry_count attempts; the first answered one is returned
\* (raise_for_status turns an error status into a failed attempt); when the last
\* attempt fails too its exception is raised.  tries[i] is what attempt i ends in.
MakeRequest(tries) ==
    LET answered == {i \in 1..retry_count : tries[i] = "ok200"}
    IN  IF answered = {}
        THEN [outcome |-> "error", attempts |-> retry_count]
        ELSE [outcome |-> "ok200",
              attempts |-> CHOOSE i \in answered : \A j \in answered : i <= j]

\* The controller's side of POST /stats/flowentry/add: an answered request adds the
\* rule (adding a rule that is there leaves the table as it is).
RyuAdd(rl, ip, prio, outcome) ==
    IF outcome = "ok200" THEN rl \cup {<<ip, prio>>} ELSE rl

\* The controller's side of POST /stats/flowentry/delete: every rule matching
\* ipv4_src goes, whatever its priority.
RyuDelete(rl, ip, outcome) ==
    IF outcome = "ok200" THEN {r \in rl : r[1] # ip} ELSE rl

\* install_flow_rule: True iff _make_request returned a 200/201 response; the
\* exception of the exhausted retries is caught and turned into False.
install_flow_rule(outcome) == outcome = "ok200"

\* remove_flow_rule: as install_flow_rule.
remove_flow_rule(outcome) == outcome = "ok200"

\* SDNController.block_ip(ip): the result of install_flow_rule.
SdnBlockIp(outcome) == install_flow_rule(outcome)

\* an unblock_ip that reports success whatever the controller answered
SdnUnblockIpAlwaysTrue(outcome) == TRUE

\* SDNController.unblock_ip(ip): the result of remove_flow_rule.
SdnUnblockIp(outcome) == remove_flow_rule(outcome)

(***************************************************************************)
(* MitigationEngine: configuration and records.                            *)
(***************************************************************************)
adaptive_threshold == TRUE

slice_policies ==
    [eMBB |-> [block_threshold |-> 700, throttle_threshold |-> 500, priority |-> 2],
     URLLC |-> [block_threshold |-> 900, throttle_threshold |-> 600, priority |-> 1],
     mMTC |-> [block_threshold |-> 600, throttle_threshold |-> 400, priority |-> 3],
     V2X |-> [block_threshold |-> 950, throttle_threshold |-> 700, priority |-> 1],
     IndustrialIoT |-> [block_threshold |-> 800, throttle_threshold |-> 500, priority |-> 2]]

\* self.slice_policies.get(slice_type, self.slice_policies['eMBB'])
SlicePolicy(slice) ==
    IF slice \in DOMAIN slice_policies THEN slice_policies[slice] ELSE slice_policies["eMBB"]

\* Thresholds are Python floats.  A float is written [m, d]: m the value to three
\* decimals in per mille, d the side on which the double lies of that decimal
\* (0: the double nearest to it, 1: the next double above, -1: the next below).
\* 0.4 * 0.8 is 0.32000000000000006, 0.7 * 0.8 is 0.5599999999999999.
Float(m) == [m |-> m, d |-> 0]

\* x * 0.9 and x * 0.8 in IEEE-754 double arithmetic, for the values the policies
\* produce; tenths is 9 or 8
FloatTimes(x, tenths) ==
    [m |-> (x.m * tenths) \div 10,
     d |-> IF <<x.m, x.d, tenths>> \in {<<400, 0, 8>>, <<320, 1, 8>>, <<800, 0, 9>>} THEN 1
           ELSE IF <<x.m, x.d, tenths>> \in {<<700, 0, 8>>, <<560, -1, 8>>} THEN -1
           ELSE 0]

\* confidence >= threshold, for a confidence given to three decimals
AtLeast(conf, x) == IF x.d > 0 THEN conf > x.m ELSE conf >= x.m

\* block_threshold after the adaptive adjustment, as the float it is
BlockThresholdFloat(slice, load) ==
    IF adaptive_threshold /\ load > 800
    THEN FloatTimes(Float(SlicePolicy(slice).block_threshold), 9)
    ELSE Float(SlicePolicy(slice).block_threshold)

\* throttle_threshold after the adaptive adjustment, as the float it is
ThrottleThresholdFloat(slice, load) ==
    IF adaptive_threshold /\ load > 800
    THEN FloatTimes(Float(SlicePolicy(slice).throttle_threshold), 8)
    ELSE Float(SlicePolicy(slice).throttle_threshold)

\* a monitor bar at half the throttle threshold
MonitorThresholdAtHalf(slice, load) ==
    [m |-> ThrottleThresholdFloat(slice, load).m \div 2, d |-> 0]

\* throttle_threshold * 0.8, the bar of the monitor branch
MonitorThresholdFloat(slice, load) == FloatTimes(ThrottleThresholdFloat(slice, load), 8)

\* block_threshold after the adaptive adjustment, to three decimals
BlockThreshold(slice, load) == BlockThresholdFloat(slice, load).m

\* throttle_threshold after the adaptive adjustment, to three decimals
ThrottleThreshold(slice, load) == ThrottleThresholdFloat(slice, load).m

\* the record block_ip stores
BlockRecord(t, reason, conf, slice) ==
    [timestamp |-> t, confidence |-> conf, packets_blocked |-> 0, reason |-> reason,
     last_seen |-> t, slice_type |-> slice, blocked_by |-> "engine"]

\* the record throttle_ip stores (no packets_blocked, reason or confidence)
ThrottleRecord(t, slice, ratio) ==
    [timestamp |-> t, action |-> "throttled", throttle_ratio |-> ratio,
     slice_type |-> slice, last_seen |-> t]

\* d.get('action', 'blocked')
RecordAction(rec) == IF "action" \in DOMAIN rec THEN rec.action ELSE "blocked"

\* the guards of execute_mitigation and of block_ip against placeholder addresses
InvalidSrcIp(ip) == ip \in {"unknown", "0.0.0.0"}
BlockIpRefuses(ip) == ip = "" \/ ip \in {"0.0.0.0", "unknown"}

(***************************************************************************)
(* MitigationEngine: the operations, as functions of the state they read.  *)
(***************************************************************************)
\* is_ip_blocked: the value it returns when it returns
is_ip_blocked(b, ip) == ip \in DOMAIN b

\* is_ip_blocked raises KeyError at `packets_blocked += 1` on a record without
\* that key (last_seen is already written by then)
IsIpBlockedRaises(b, ip) == ip \in DOMAIN b /\ "packets_blocked" \notin DOMAIN b[ip]

\* (mutant) is_ip_blocked that refreshes last_seen and forgets the counter
IsIpBlockedNoCount(b, ip, t) ==
    IF ip \notin DOMAIN b THEN b ELSE [b EXCEPT ![ip].last_seen = t]

\* is_ip_blocked: the map it leaves
IsIpBlockedEffect(b, ip, t) ==
    IF ip \notin DOMAIN b THEN b
    ELSE IF "packets_blocked" \in DOMAIN b[ip]
         THEN [b EXCEPT ![ip].last_seen = t, ![ip].packets_blocked = @ + 1]
         ELSE [b EXCEPT ![ip].last_seen = t]

\* a block_ip that writes its record whatever the controller answered
BlockIpCommitAlways(b, t, ip, reason, conf, slice, success) ==
    Put(b, ip, BlockRecord(t, reason, conf, slice))

\* block_ip, after the controller answered: the record is written on success only
BlockIpCommit(b, t, ip, reason, conf, slice, success) ==
    IF success THEN Put(b, ip, BlockRecord(t, reason, conf, slice)) ELSE b

\* block_ip(ip, reason, confidence, slice_type)
EngineBlockIp(b, rl, t, ip, reason, conf, slice, outcome) ==
    IF BlockIpRefuses(ip)
    THEN [blocked |-> b, rules |-> rl, success |-> FALSE, installs |-> 0]
    ELSE [blocked |-> BlockIpCommit(b, t, ip, reason, conf, slice, SdnBlockIp(outcome)),
          rules |-> RyuAdd(rl, ip, BLOCK_PRIORITY, outcome),
          success |-> SdnBlockIp(outcome),
          installs |-> 1]

\* throttle_ip(ip, slice_type, throttle_ratio): `success = True`, no controller call
EngineThrottleIp(b, rl, t, ip, slice, ratio) ==
    [blocked |-> Put(b, ip, ThrottleRecord(t, slice, ratio)), rules |-> rl,
     success |-> TRUE, installs |-> 0]

\* (mutant) unblock_ip without the `ip not in self.blocked_ips` early return: the
\* controller is asked to remove the rule whether or not a record exists
EngineUnblockIpNoGuard(b, rl, ip, outcome) ==
    [blocked |-> IF SdnUnblockIp(outcome) THEN Del(b, ip) ELSE b,
     rules |-> RyuDelete(rl, ip, outcome),
     success |-> SdnUnblockIp(outcome),
     removes |-> 1]

\* unblock_ip(ip)
EngineUnblockIp(b, rl, ip, outcome) ==
    IF ip \notin DOMAIN b
    THEN [blocked |-> b, rules |-> rl, success |-> FALSE, removes |-> 0]
    ELSE IF RecordAction(b[ip]) = "blocked"
         THEN [blocked |-> IF SdnUnblockIp(outcome) THEN Del(b, ip) ELSE b,
               rules |-> RyuDelete(rl, ip, outcome),
               success |-> SdnUnblockIp(outcome),
               removes |-> 1]
         ELSE [blocked |-> Del(b, ip), rules |-> rl, success |-> TRUE, removes |-> 0]

\* (mutant) the block branch taken on `confidence > block_threshold`
DecisionStrict(pred, conf, slice, load) ==
    IF pred = "ddos" /\ conf > BlockThreshold(slice, load) THEN "BLOCK"
    ELSE IF pred = "ddos" /\ AtLeast(conf, ThrottleThresholdFloat(slice, load)) THEN "THROTTLE"
    ELSE IF AtLeast(conf, MonitorThresholdFloat(slice, load)) THEN "MONITOR"
    ELSE "NONE"

\* a monitor branch that only takes confidences under the throttle threshold
DecisionAtMonitorBand(pred, conf, bt, tt, mt) ==
    IF pred = "ddos" /\ AtLeast(conf, bt) THEN "BLOCK"
    ELSE IF pred = "ddos" /\ AtLeast(conf, tt) THEN "THROTTLE"
    ELSE IF AtLeast(conf, mt) /\ ~AtLeast(conf, tt) THEN "MONITOR"
    ELSE "NONE"

\* the if / elif chain of execute_mitigation for the thresholds bt (block),
\* tt (throttle) and mt (throttle * 0.8)
DecisionAt(pred, conf, bt, tt, mt) ==
    IF pred = "ddos" /\ AtLeast(conf, bt) THEN "BLOCK"
    ELSE IF pred = "ddos" /\ AtLeast(conf, tt) THEN "THROTTLE"
    ELSE IF AtLeast(conf, mt) THEN "MONITOR"
    ELSE "NONE"

\* the branch execute_mitigation takes for an identity without a record
Decision(pred, conf, slice, load) ==
    DecisionAt(pred, conf, BlockThresholdFloat(slice, load),
               ThrottleThresholdFloat(slice, load), MonitorThresholdFloat(slice, load))

\* mitigation_action once the enforcement call of the branch returned `success`
MitigationAction(decision, success) ==
    CASE decision = "BLOCK" -> IF success THEN "BLOCKED" ELSE "None"
      [] decision = "THROTTLE" -> IF success THEN "THROTTLED" ELSE "None"
      [] decision = "MONITOR" -> "MONITOR"
      [] OTHER -> "None"

\* threshold_used of the history entry and of the result
ThresholdUsed(action, slice, load) ==
    IF action = "BLOCKED" THEN BlockThreshold(slice, load) ELSE ThrottleThreshold(slice, load)

\* "Record in history": appended only when an action was taken (the entry's
\* timestamp and the copy of flow_info under 'details' are written and never
\* read by the engine; the entry is kept without them)
RecordHistory(h, t, ip, conf, action, slice, load) ==
    IF action # "None"
    THEN Append(h, [ip |-> ip, confidence |-> conf, action |-> action,
                    slice |-> slice, threshold_used |-> ThresholdUsed(action, slice, load)])
    ELSE h

\* the dictionary execute_mitigation returns from its last statement
MitigationResult(ip, conf, action, slice, load) ==
    [status |-> IF action # "None"
                THEN (CASE action = "BLOCKED" -> "blocked"
                        [] action = "THROTTLED" -> "throttled"
                        [] OTHER -> "monitor")
                ELSE "normal",
     ip |-> ip, confidence |-> conf, action |-> action, slice |-> slice,
     threshold_used |-> ThresholdUsed(action, slice, load),
     mitigation_applied |-> action \in {"BLOCKED", "THROTTLED"}]

\* the "already_blocked" dictionary, read after is_ip_blocked updated the record
AlreadyBlockedResult(b, ip) ==
    [status |-> "already_blocked", ip |-> ip, since |-> b[ip].timestamp,
     packets_blocked |-> b[ip].packets_blocked, mitigation_applied |-> FALSE]

InvalidIpResult == [status |-> "error", message |-> "Invalid IP", mitigation_applied |-> FALSE]

\* an exception leaving execute_mitigation (performance_monitor re-raises it)
RaisedResult(exc) == [status |-> "raised", exception |-> exc, mitigation_applied |-> FALSE]

\* the decision branches of execute_mitigation (source lines 85-144), for an
\* identity that passed the two early returns
Mitigate(b, h, rl, t, ip, pred, conf, slice, load, outcome) ==
    LET d == Decision(pred, conf, slice, load)
        enf == CASE d = "BLOCK" ->
                      EngineBlockIp(b, rl, t, ip, <<"DDoS detected", conf>>, conf, slice, outcome)
                 [] d = "THROTTLE" ->
                      EngineThrottleIp(b, rl, t, ip, slice, 500)
                 [] OTHER -> [blocked |-> b, rules |-> rl, success |-> FALSE, installs |-> 0]
        action == MitigationAction(d, enf.success)
    IN  [blocked |-> enf.blocked,
         rules |-> enf.rules,
         history |-> RecordHistory(h, t, ip, conf, action, slice, load),
         installs |-> enf.installs,
         result |-> MitigationResult(ip, conf, action, slice, load)]

\* execute_mitigation(detection_result, flow_info, slice_type)
execute_mitigation(b, h, rl, t, ip, pred, conf, slice, load, outcome) ==
    IF InvalidSrcIp(ip)
    THEN [blocked |-> b, rules |-> rl, history |-> h, installs |-> 0, result |-> InvalidIpResult]
    ELSE IF IsIpBlockedRaises(b, ip)
    THEN [blocked |-> IsIpBlockedEffect(b, ip, t), rules |-> rl, history |-> h, installs |-> 0,
          result |-> RaisedResult("KeyError")]
    ELSE IF is_ip_blocked(b, ip)
    THEN [blocked |-> IsIpBlockedEffect(b, ip, t), rules |-> rl, history |-> h, installs |-> 0,
          result |-> AlreadyBlockedResult(IsIpBlockedEffect(b, ip, t), ip)]
    ELSE Mitigate(b, h, rl, t, ip, pred, conf, slice, load, outcome)

\* the identities _cleanup_expired_blocks selects
Expired(b, t, au) == {ip \in DOMAIN b : t - b[ip].timestamp > block_duration /\ au}

\* the loop `for ip in expired: self.unblock_ip(ip)`; outs[ip] is what the
\* controller request made for ip ends in
RECURSIVE UnblockAll(_, _, _, _)
UnblockAll(b, rl, todo, outs) ==
    IF todo = {} THEN [blocked |-> b, rules |-> rl, removes |-> 0]
    ELSE LET ip == CHOOSE x \in todo : TRUE
             one == EngineUnblockIp(b, rl, ip, outs[ip])
             rest == UnblockAll(one.blocked, one.rules, todo \ {ip}, outs)
         IN  [rest EXCEPT !.removes = @ + one.removes]

\* the trim at the end of _cleanup_expired_blocks
TrimHistory(h) ==
    IF Len(h) > max_history THEN SubSeq(h, Len(h) - max_history + 1, Len(h)) ELSE h

\* _cleanup_expired_blocks(), run at time t
cleanup_expired_blocks(b, rl, h, t, au, outs) ==
    LET r == UnblockAll(b, rl, Expired(b, t, au), outs)
    IN  [blocked |-> r.blocked, rules |-> r.rules, history |-> TrimHistory(h),
         expired |-> Expired(b, t, au), removes |-> r.removes]

(***************************************************************************)
(* The parts of the state a specification does not use stay as they start. *)
(***************************************************************************)
NoGatewayCall ==
    [op |-> "none", ip |-> "-", outcome |-> "-", requests |-> 0, result |-> FALSE,
     had_rule |-> FALSE]

WorkersIdle == pc = <<>> /\ wk = <<>> /\ install_calls = 0
GatewayIdle == BLOCKED_IPS = {} /\ gw_last = NoGatewayCall
CacheIdle == cache = EmptyDict /\ access_times = <<>> /\ fresh = EmptyDict
RateIdle == timestamps = EmptyDict /\ recorded = EmptyDict
FeedbackIdle ==
    /\ feedback_buffer = <<>>
    /\ total_predictions = 0
    /\ correct_predictions = 0
    /\ retrains_started = 0
    /\ fed = <<>>
NoRequest == [pc |-> "none"]
NoDecision == [pc |-> "none"]
SideIdle == RateIdle /\ FeedbackIdle /\ rq = NoRequest /\ dq = NoDecision

(***************************************************************************)
(* The engine driven by one caller at a time: each action is one call,     *)
(* run to its return.                                                      *)
(***************************************************************************)
EngineInit ==
    /\ now = 0
    /\ blocked_ips = EmptyDict
    /\ mitigation_history = <<>>
    /\ auto_unblock \in BOOLEAN
    /\ rules = {}
    /\ WorkersIdle /\ GatewayIdle /\ CacheIdle /\ SideIdle

\* time passes
Tick ==
    /\ now < MaxTime
    /\ now' = now + 1
    /\ UNCHANGED <<blocked_ips, mitigation_history, auto_unblock, rules>>
    /\ UNCHANGED <<workerVars, gatewayVars, cacheVars, sideVars>>

\* engine.execute_mitigation({'prediction': pred, 'confidence': conf},
\*                           {'src_ip': ip, 'network_load': load}, slice)
ExecuteMitigation ==
    \E ip \in IPs, pred \in Predictions, conf \in EventConfidences, slice \in EventSlices,
       load \in EventLoads, outcome \in Outcomes :
        LET r == execute_mitigation(blocked_ips, mitigation_history, rules, now,
                                    ip, pred, conf, slice, load, outcome)
        IN  /\ Len(r.history) <= MaxHistLen
            /\ ip \in DOMAIN blocked_ips /\ "packets_blocked" \in DOMAIN blocked_ips[ip]
                   => blocked_ips[ip].packets_blocked < MaxPackets
            /\ blocked_ips' = r.blocked
            /\ mitigation_history' = r.history
            /\ rules' = r.rules
            /\ UNCHANGED <<now, auto_unblock>>
            /\ UNCHANGED <<workerVars, gatewayVars, cacheVars, sideVars>>

\* engine.block_ip(ip), with the defaults of its other parameters
BlockIp ==
    \E ip \in IPs, outcome \in Outcomes :
        LET r == EngineBlockIp(blocked_ips, rules, now, ip, "DDoS Detection", 0, "eMBB", outcome)
        IN  /\ blocked_ips' = r.blocked
            /\ rules' = r.rules
            /\ UNCHANGED <<now, mitigation_history, auto_unblock>>
            /\ UNCHANGED <<workerVars, gatewayVars, cacheVars, sideVars>>

\* engine.unblock_ip(ip)
UnblockIp ==
    \E ip \in IPs, outcome \in Outcomes :
        LET r == EngineUnblockIp(blocked_ips, rules, ip, outcome)
        IN  /\ blocked_ips' = r.blocked
            /\ rules' = r.rules
            /\ UNCHANGED <<now, mitigation_history, auto_unblock>>
            /\ UNCHANGED <<workerVars, gatewayVars, cacheVars, sideVars>>

\* one pass of the cleanup thread: engine._cleanup_expired_blocks()
CleanupExpiredBlocks ==
    \E outs \in [Expired(blocked_ips, now, auto_unblock) -> Outcomes] :
        LET r == cleanup_expired_blocks(blocked_ips, rules, mitigation_history, now,
                                        auto_unblock, outs)
        IN  /\ blocked_ips' = r.blocked
            /\ rules' = r.rules
            /\ mitigation_history' = r.history
            /\ UNCHANGED <<now, auto_unblock>>
            /\ UNCHANGED <<workerVars, gatewayVars, cacheVars, sideVars>>

Next ==
    \/ Tick
    \/ ExecuteMitigation
    \/ BlockIp
    \/ UnblockIp
    \/ CleanupExpiredBlocks

Spec == EngineInit /\ [][Next]_vars

(***************************************************************************)
(* Properties of the engine.  Each is stated of every call the engine can  *)
(* be given in a state it can reach: the call's effect and return value    *)
(* are those of the operator the action applies.                           *)
(***************************************************************************)
HasBlockRecord(b, ip) == ip \in DOMAIN b /\ RecordAction(b[ip]) = "blocked"
HasRule(rl, ip) == \E r \in rl : r[1] = ip

\* C2 (as claimed): block(ip) called again, with no unblock since the block_ip call
\* that wrote the identity's record, returns True without another install call (the
\* two calls make at most one install call between them).
C2_BlockTwiceOneInstall ==
    \A ip \in ValidIPs :
        (HasBlockRecord(blocked_ips, ip) /\ blocked_ips[ip].reason = "DDoS Detection") =>
            LET r == EngineBlockIp(blocked_ips, rules, now, ip, "DDoS Detection", 0, "eMBB", "ok200")
            IN  r.success /\ r.installs = 0

\* C3: for a valid identity without a record, a ddos prediction whose confidence
\* reaches the slice's block_threshold, with the controller accepting the install,
\* returns status blocked / action BLOCKED, makes exactly one install call, stores a
\* block record for the identity and appends exactly one history entry, a BLOCKED one.
C3_BlockDecision ==
    \A ip \in ValidIPs, conf \in Confidences, slice \in SliceTypes, load \in Loads :
        (ip \notin DOMAIN blocked_ips /\ conf >= SlicePolicy(slice).block_threshold) =>
            LET r == execute_mitigation(blocked_ips, mitigation_history, rules, now,
                                        ip, "ddos", conf, slice, load, "ok200")
            IN  /\ r.result.status = "blocked"
                /\ r.result.action = "BLOCKED"
                /\ r.result.mitigation_applied
                /\ r.installs = 1
                /\ HasBlockRecord(r.blocked, ip)
                /\ r.blocked[ip].confidence = conf
                /\ r.blocked[ip].timestamp = now
                /\ \A other \in DOMAIN blocked_ips : r.blocked[other] = blocked_ips[other]
                /\ Len(r.history) = Len(mitigation_history) + 1
                /\ SubSeq(r.history, 1, Len(mitigation_history)) = mitigation_history
                /\ r.history[Len(r.history)].action = "BLOCKED"
                /\ r.history[Len(r.history)].ip = ip

\* C3 witness: a block decided by execute_mitigation has been committed: the
\* identity's fresh record and the BLOCKED entry closing the history
C3_Witness ==
    \E ip \in ValidIPs :
        /\ HasBlockRecord(blocked_ips, ip)
        /\ blocked_ips[ip].reason = <<"DDoS detected", 900>>
        /\ blocked_ips[ip].packets_blocked = 0
        /\ HasRule(rules, ip)
        /\ Len(mitigation_history) > 0
        /\ mitigation_history[Len(mitigation_history)].action = "BLOCKED"
        /\ mitigation_history[Len(mitigation_history)].ip = ip

\* C4: for an identity with a block record, every decision event, whatever its
\* prediction, confidence and slice, returns already_blocked, makes no install
\* call, appends nothing to the history, adds one to packets_blocked, sets last_seen
\* to the time of the call and leaves every other field and every other record alone.
C4_AlreadyBlocked ==
    \A ip \in DOMAIN blocked_ips, pred \in Predictions, conf \in Confidences,
       slice \in SliceTypes, load \in EventLoads, outcome \in Outcomes :
        RecordAction(blocked_ips[ip]) = "blocked" =>
            execute_mitigation(blocked_ips, mitigation_history, rules, now,
                               ip, pred, conf, slice, load, outcome)
            = [blocked |-> [blocked_ips EXCEPT
                               ![ip] = [reason |-> @.reason,
                                        timestamp |-> @.timestamp,
                                        confidence |-> @.confidence,
                                        slice_type |-> @.slice_type,
                                        blocked_by |-> @.blocked_by,
                                        packets_blocked |-> @.packets_blocked + 1,
                                        last_seen |-> now]],
               rules |-> rules,
               history |-> mitigation_history,
               installs |-> 0,
               result |-> [status |-> "already_blocked",
                           ip |-> ip,
                           since |-> blocked_ips[ip].timestamp,
                           packets_blocked |-> blocked_ips[ip].packets_blocked + 1,
                           mitigation_applied |-> FALSE]]

\* C4 witness: a blocked identity has been observed again, later than it was blocked
C4_Witness ==
    \E ip \in DOMAIN blocked_ips :
        /\ RecordAction(blocked_ips[ip]) = "blocked"
        /\ blocked_ips[ip].packets_blocked >= 1
        /\ blocked_ips[ip].last_seen > blocked_ips[ip].timestamp

\* C5 (as claimed): when the install call of a block decision fails, no record is
\* created or changed, nothing is appended to the history, mitigation_applied is
\* false, and the returned result reports the failure: its status is not the
\* "normal" an allowed event gets.
C5_FailureReported ==
    \A ip \in ValidIPs, conf \in Confidences, slice \in SliceTypes, load \in Loads :
        (ip \notin DOMAIN blocked_ips /\ Decision("ddos", conf, slice, load) = "BLOCK") =>
            LET r == execute_mitigation(blocked_ips, mitigation_history, rules, now,
                                        ip, "ddos", conf, slice, load, "error")
            IN  /\ r.blocked = blocked_ips
                /\ r.history = mitigation_history
                /\ ~r.result.mitigation_applied
                /\ r.result.status # "normal"

\* the identities whose record is older than block_duration
OlderThanDuration == {ip \in DOMAIN blocked_ips : now - blocked_ips[ip].timestamp > block_duration}

\* C6 (as claimed): a sweep with auto_unblock enabled makes one remove call per record
\* older than block_duration, deletes exactly those of them whose call succeeded and
\* leaves the younger records untouched; with auto_unblock disabled it removes nothing.
C6_SweepExpires ==
    \A outs \in [Expired(blocked_ips, now, auto_unblock) -> Outcomes] :
        LET r == cleanup_expired_blocks(blocked_ips, rules, mitigation_history, now,
                                        auto_unblock, outs)
        IN  IF auto_unblock
            THEN /\ r.removes = Cardinality(OlderThanDuration)
                 /\ DOMAIN r.blocked =
                        DOMAIN blocked_ips \ {ip \in OlderThanDuration : outs[ip] = "ok200"}
                 /\ \A ip \in DOMAIN r.blocked : r.blocked[ip] = blocked_ips[ip]
            ELSE r.blocked = blocked_ips /\ r.removes = 0

\* C7: unblock_ip for an identity without a record makes no remove call and leaves
\* the records and the flow table as they are; so a second unblock_ip right after a
\* successful one changes nothing.
C7_UnblockNoRecord ==
    /\ \A ip \in IPs, outcome \in Outcomes :
        ip \notin DOMAIN blocked_ips =>
            LET r == EngineUnblockIp(blocked_ips, rules, ip, outcome)
            IN  r.removes = 0 /\ r.blocked = blocked_ips /\ r.rules = rules
    /\ \A ip \in DOMAIN blocked_ips, o1 \in Outcomes, o2 \in Outcomes :
        LET r1 == EngineUnblockIp(blocked_ips, rules, ip, o1)
            r2 == EngineUnblockIp(r1.blocked, r1.rules, ip, o2)
        IN  r1.success => r2.removes = 0 /\ r2.blocked = r1.blocked /\ r2.rules = r1.rules

\* C7 witness: an identity that was blocked or throttled (the history says so) and
\* has no record any more, so that unblock_ip now finds nothing
C7_Witness ==
    \E ip \in ValidIPs :
        /\ ip \notin DOMAIN blocked_ips
        /\ \E i \in 1..Len(mitigation_history) :
            /\ mitigation_history[i].ip = ip
            /\ mitigation_history[i].action \in {"BLOCKED", "THROTTLED"}

Workers == 1..NWorkers

NoLocals ==
    [ip |-> "-", pred |-> "-", conf |-> 0, slice |-> "-", load |-> 0,
     outcome |-> "-", success |-> FALSE, result |-> FALSE]

WorkersInit ==
    /\ now = 0
    /\ blocked_ips = EmptyDict
    /\ mitigation_history = <<>>
    /\ auto_unblock = TRUE
    /\ rules = {}
    /\ pc = [w \in Workers |-> "start"]
    /\ wk = [w \in Workers |-> NoLocals]
    /\ install_calls = 0
    /\ GatewayIdle /\ CacheIdle /\ SideIdle

\* execute_mitigation reaches self.sdn_controller.block_ip(ip): the identity passed
\* the early returns, the block branch is taken and block_ip does not refuse it
ReachesInstall(b, ip, pred, conf, slice, load) ==
    /\ ~InvalidSrcIp(ip)
    /\ ~is_ip_blocked(b, ip)
    /\ Decision(pred, conf, slice, load) = "BLOCK"
    /\ ~BlockIpRefuses(ip)

\* execute_mitigation from its first line to the controller request of block_ip, or
\* to its return when it makes no request
EmEnter(w) ==
    /\ pc[w] = "start"
    /\ \E ip \in ValidIPs, pred \in Predictions, conf \in EventConfidences,
          slice \in EventSlices, load \in EventLoads :
        LET args == [NoLocals EXCEPT !.ip = ip, !.pred = pred, !.conf = conf,
                                     !.slice = slice, !.load = load]
        IN  IF ReachesInstall(blocked_ips, ip, pred, conf, slice, load)
            THEN /\ pc' = [pc EXCEPT ![w] = "install"]
                 /\ wk' = [wk EXCEPT ![w] = args]
                 /\ UNCHANGED <<blocked_ips, mitigation_history>>
            ELSE LET r == execute_mitigation(blocked_ips, mitigation_history, rules, now,
                                             ip, pred, conf, slice, load, "ok200")
                 IN  /\ pc' = [pc EXCEPT ![w] = "done"]
                     /\ wk' = [wk EXCEPT ![w] = [args EXCEPT !.result = r.result]]
                     /\ blocked_ips' = r.blocked
                     /\ mitigation_history' = r.history
    /\ UNCHANGED <<now, auto_unblock, rules, install_calls, gatewayVars, cacheVars, sideVars>>

\* the controller request of SDNController.block_ip, and its answer
EmInstall(w) ==
    /\ pc[w] = "install"
    /\ \E outcome \in Outcomes :
        /\ rules' = RyuAdd(rules, wk[w].ip, BLOCK_PRIORITY, outcome)
        /\ wk' = [wk EXCEPT ![w].outcome = outcome, ![w].success = SdnBlockIp(outcome)]
    /\ install_calls' = install_calls + 1
    /\ pc' = [pc EXCEPT ![w] = "commit"]
    /\ UNCHANGED <<now, auto_unblock, blocked_ips, mitigation_history, gatewayVars, cacheVars, sideVars>>

\* block_ip from the answer on, then the rest of execute_mitigation
EmCommit(w) ==
    /\ pc[w] = "commit"
    /\ LET l == wk[w]
           action == MitigationAction("BLOCK", l.success)
       IN  /\ blocked_ips' = BlockIpCommit(blocked_ips, now, l.ip, <<"DDoS detected", l.conf>>,
                                           l.conf, l.slice, l.success)
           /\ mitigation_history' =
                  RecordHistory(mitigation_history, now, l.ip, l.conf, action, l.slice, l.load)
           /\ wk' = [wk EXCEPT ![w].result =
                         MitigationResult(l.ip, l.conf, action, l.slice, l.load)]
    /\ pc' = [pc EXCEPT ![w] = "done"]
    /\ UNCHANGED <<now, auto_unblock, rules, install_calls, gatewayVars, cacheVars, sideVars>>

WorkersNext == \E w \in Workers : EmEnter(w) \/ EmInstall(w) \/ EmCommit(w)

WorkersSpec == WorkersInit /\ [][WorkersNext]_vars

\* C1 (as claimed): when every worker has handled an event for the same identity
\* that resolves to BLOCK (ddos, confidence at or over the block threshold), the
\* identity had no record beforehand and no install was refused, the identity has
\* one record and the controller received exactly one install call.
C1_SingleInstall ==
    \A ip \in ValidIPs :
        (\A w \in Workers :
            /\ pc[w] = "done"
            /\ wk[w].ip = ip
            /\ Decision(wk[w].pred, wk[w].conf, wk[w].slice, wk[w].load) = "BLOCK"
            /\ wk[w].outcome # "error")
        => HasBlockRecord(blocked_ips, ip) /\ install_calls = 1

(***************************************************************************)
(* The gateways to the Ryu controller: SDNController (retrying) and the    *)
(* block_ip / unblock_ip functions of app.py (one attempt, with the set    *)
(* BLOCKED_IPS in front).  Ryu answers an accepted add or delete with 200  *)
(* whether or not the flow table already is as asked.                      *)
(***************************************************************************)
GatewayInit ==
    /\ now = 0
    /\ blocked_ips = EmptyDict
    /\ mitigation_history = <<>>
    /\ auto_unblock = TRUE
    /\ rules = {}
    /\ BLOCKED_IPS = {}
    /\ gw_last = NoGatewayCall
    /\ WorkersIdle /\ CacheIdle /\ SideIdle

GatewayCall(op, ip, outcome, requests, result, had) ==
    [op |-> op, ip |-> ip, outcome |-> outcome, requests |-> requests, result |-> result,
     had_rule |-> had]

\* SDNController.block_ip(ip)
SdnBlock ==
    \E ip \in ValidIPs, tries \in [1..retry_count -> Answers] :
        LET r == MakeRequest(tries)
        IN  /\ rules' = RyuAdd(rules, ip, BLOCK_PRIORITY, r.outcome)
            /\ gw_last' = GatewayCall("sdn_block", ip, r.outcome, r.attempts,
                                      SdnBlockIp(r.outcome), <<ip, BLOCK_PRIORITY>> \in rules)
            /\ UNCHANGED <<BLOCKED_IPS, engineVarsButRules, workerVars, cacheVars, sideVars>>

\* SDNController.throttle_ip(ip)
SdnThrottle ==
    \E ip \in ValidIPs, tries \in [1..retry_count -> Answers] :
        LET r == MakeRequest(tries)
        IN  /\ rules' = RyuAdd(rules, ip, THROTTLE_PRIORITY, r.outcome)
            /\ gw_last' = GatewayCall("sdn_throttle", ip, r.outcome, r.attempts,
                                      install_flow_rule(r.outcome),
                                      <<ip, THROTTLE_PRIORITY>> \in rules)
            /\ UNCHANGED <<BLOCKED_IPS, engineVarsButRules, workerVars, cacheVars, sideVars>>

\* SDNController.unblock_ip(ip)
SdnUnblock ==
    \E ip \in ValidIPs, tries \in [1..retry_count -> Answers] :
        LET r == MakeRequest(tries)
        IN  /\ rules' = RyuDelete(rules, ip, r.outcome)
            /\ gw_last' = GatewayCall("sdn_unblock", ip, r.outcome, r.attempts,
                                      SdnUnblockIp(r.outcome), HasRule(rules, ip))
            /\ UNCHANGED <<BLOCKED_IPS, engineVarsButRules, workerVars, cacheVars, sideVars>>

\* the block_ip of app.py refusing an address it already holds
AppBlockIpRejectsDuplicate(B, ip, answer) ==
    IF ip \in B
    THEN [result |-> FALSE, requests |-> 0, outcome |-> "-", BLOCKED_IPS |-> B]
    ELSE [result |-> answer = "ok200", requests |-> 1, outcome |-> answer,
          BLOCKED_IPS |-> IF answer = "ok200" THEN B \cup {ip} ELSE B]

\* app.py block_ip(ip): True at once for an address in BLOCKED_IPS; else one POST,
\* and the address joins BLOCKED_IPS when the answer is r.ok
AppBlockIp(B, ip, answer) ==
    IF ip \in B
    THEN [result |-> TRUE, requests |-> 0, outcome |-> "-", BLOCKED_IPS |-> B]
    ELSE [result |-> answer = "ok200", requests |-> 1, outcome |-> answer,
          BLOCKED_IPS |-> IF answer = "ok200" THEN B \cup {ip} ELSE B]

\* app.py unblock_ip(ip): True at once for an address not in BLOCKED_IPS; else one
\* POST, and the address leaves BLOCKED_IPS when the answer is r.ok
AppUnblockIp(B, ip, answer) ==
    IF ip \notin B
    THEN [result |-> TRUE, requests |-> 0, outcome |-> "-", BLOCKED_IPS |-> B]
    ELSE [result |-> answer = "ok200", requests |-> 1, outcome |-> answer,
          BLOCKED_IPS |-> IF answer = "ok200" THEN B \ {ip} ELSE B]

AppBlock ==
    \E ip \in ValidIPs, answer \in Answers :
        LET r == AppBlockIp(BLOCKED_IPS, ip, answer)
        IN  /\ BLOCKED_IPS' = r.BLOCKED_IPS
            /\ rules' = IF r.requests = 1 THEN RyuAdd(rules, ip, BLOCK_PRIORITY, answer)
                        ELSE rules
            /\ gw_last' = GatewayCall("app_block", ip, r.outcome, r.requests, r.result,
                                      ip \in BLOCKED_IPS)
            /\ UNCHANGED <<engineVarsButRules, workerVars, cacheVars, sideVars>>

AppUnblock ==
    \E ip \in ValidIPs, answer \in Answers :
        LET r == AppUnblockIp(BLOCKED_IPS, ip, answer)
        IN  /\ BLOCKED_IPS' = r.BLOCKED_IPS
            /\ rules' = IF r.requests = 1 THEN RyuDelete(rules, ip, answer) ELSE rules
            /\ gw_last' = GatewayCall("app_unblock", ip, r.outcome, r.requests, r.result,
                                      ip \in BLOCKED_IPS)
            /\ UNCHANGED <<engineVarsButRules, workerVars, cacheVars, sideVars>>

GatewayNext == SdnBlock \/ SdnThrottle \/ SdnUnblock \/ AppBlock \/ AppUnblock

GatewaySpec == GatewayInit /\ [][GatewayNext]_vars

HasKey(a, k) == \E i \in 1..Len(a) : a[i][1] = k
AccessTime(a, k) == a[CHOOSE i \in 1..Len(a) : a[i][1] = k][2]
RemoveKey(a, k) == SelectSeq(a, LAMBDA e : e[1] # k)
SetAccess(a, k, t) ==
    IF HasKey(a, k)
    THEN [i \in 1..Len(a) |-> IF a[i][1] = k THEN <<k, t>> ELSE a[i]]
    ELSE Append(a, <<k, t>>)

\* an eviction of the entry stored last: the last key of the dict
LastInsertedKey(a) == a[Len(a)][1]

\* min(self.access_times.keys(), key=...): the first key, in insertion order, of
\* those with the least access time
OldestKey(a) ==
    LET i == CHOOSE i \in 1..Len(a) :
                 /\ \A j \in 1..Len(a) : a[i][2] <= a[j][2]
                 /\ \A j \in 1..(i - 1) : a[j][2] > a[i][2]
    IN  a[i][1]

\* a get that hands out whatever is stored, however old
GetIgnoringTtl(c, a, k, t) ==
    IF k \in DOMAIN c
    THEN [cache |-> c, access_times |-> a, value |-> c[k]]
    ELSE [cache |-> c, access_times |-> a, value |-> "None"]

\* PerformanceCache.get(key) at time t
get(c, a, k, t) ==
    IF k \in DOMAIN c
    THEN IF t - AccessTime(a, k) < ttl
         THEN [cache |-> c, access_times |-> a, value |-> c[k]]
         ELSE [cache |-> Del(c, k), access_times |-> RemoveKey(a, k), value |-> "None"]
    ELSE [cache |-> c, access_times |-> a, value |-> "None"]

\* PerformanceCache.set(key, value) at time t; evicted is the key dropped for room
set(c, a, k, v, t) ==
    LET full == Cardinality(DOMAIN c) >= max_size
        c1 == IF full THEN Del(c, OldestKey(a)) ELSE c
        a1 == IF full THEN RemoveKey(a, OldestKey(a)) ELSE a
    IN  [cache |-> Put(c1, k, v),
         access_times |-> SetAccess(a1, k, t),
         evicted |-> IF full THEN {OldestKey(a)} ELSE {}]

\* PerformanceCache._cleanup_expired() at time t
cleanup_expired(c, a, t) ==
    LET expired_keys == {k \in DOMAIN c : t - AccessTime(a, k) > ttl}
    IN  [cache |-> [k \in DOMAIN c \ expired_keys |-> c[k]],
         access_times |-> SelectSeq(a, LAMBDA e : e[1] \notin expired_keys)]

CacheInit ==
    /\ now = 0
    /\ blocked_ips = EmptyDict
    /\ mitigation_history = <<>>
    /\ auto_unblock = TRUE
    /\ rules = {}
    /\ cache = EmptyDict
    /\ access_times = <<>>
    /\ fresh = EmptyDict
    /\ WorkersIdle /\ GatewayIdle /\ SideIdle

CacheTick ==
    /\ now < MaxCacheTime
    /\ now' = now + 1
    /\ UNCHANGED <<cacheVars, engineVarsButNow, workerVars, gatewayVars, sideVars>>

\* cache.set(k, v).  fresh remembers, for every key, the set that stored it for as
\* long as no later set replaced or evicted the entry and no get asked for it.
CacheSet ==
    \E k \in Keys, v \in Values :
        LET r == set(cache, access_times, k, v, now)
        IN  /\ cache' = r.cache
            /\ access_times' = r.access_times
            /\ fresh' = Put([x \in DOMAIN fresh \ r.evicted |-> fresh[x]], k,
                            [at |-> now, value |-> v])
    /\ UNCHANGED <<engineVars, workerVars, gatewayVars, sideVars>>

\* cache.get(k)
CacheGet ==
    \E k \in Keys :
        LET r == get(cache, access_times, k, now)
        IN  /\ cache' = r.cache
            /\ access_times' = r.access_times
            /\ fresh' = Del(fresh, k)
    /\ UNCHANGED <<engineVars, workerVars, gatewayVars, sideVars>>

\* one pass of the cleanup thread
CacheCleanupExpired ==
    /\ LET r == cleanup_expired(cache, access_times, now)
       IN  /\ cache' = r.cache
           /\ access_times' = r.access_times
    /\ UNCHANGED <<fresh, engineVars, workerVars, gatewayVars, sideVars>>

CacheNext == CacheTick \/ CacheSet \/ CacheGet \/ CacheCleanupExpired

CacheSpec == CacheInit /\ [][CacheNext]_vars

\* C10: an entry stored by set at time T, which no later set has replaced or evicted
\* and no get has asked for since, is returned by get at every time before T + ttl,
\* and at every time after T + ttl get returns None and the entry is gone.
C10_TtlExpiry ==
    \A k \in DOMAIN fresh :
        LET r == get(cache, access_times, k, now)
        IN  /\ now < fresh[k].at + ttl => r.value = fresh[k].value
            /\ now > fresh[k].at + ttl => r.value = "None" /\ k \notin DOMAIN r.cache

\* C10 witness: one entry is past its ttl and still stored, waiting for the get or
\* the sweep that drops it, while another is within its ttl
C10_Witness ==
    \E k1 \in DOMAIN fresh, k2 \in DOMAIN fresh :
        /\ now > fresh[k1].at + ttl
        /\ k1 \in DOMAIN cache
        /\ now < fresh[k2].at + ttl
        /\ k2 \in DOMAIN cache

(***************************************************************************)
(* The engine, one caller at a time: history cap, placeholder identities,  *)
(* throttle records and the throttle, monitor and allow branches.          *)
(***************************************************************************)

\* C11 (as claimed): the history never holds more than max_history entries.
C11_HistoryCapped == Len(mitigation_history) <= max_history

\* C15 (as claimed): a decision event for a placeholder identity returns an error
\* result, makes no enforcement call and leaves the records and the history as
\* they are, whatever branch its prediction and confidence select.
C15_PlaceholderRejected ==
    \A ip \in PlaceholderIPs, pred \in Predictions, conf \in EventConfidences,
       outcome \in Outcomes :
        execute_mitigation(blocked_ips, mitigation_history, rules, now,
                           ip, pred, conf, "eMBB", 500, outcome)
        = [blocked |-> blocked_ips, rules |-> rules, history |-> mitigation_history,
           installs |-> 0, result |-> InvalidIpResult]

\* C16 (as claimed): for an identity with a throttle record every decision event
\* returns already_throttled, makes no enforcement call, sets last_seen to the time
\* of the call and keeps the record a throttle record.
C16_AlreadyThrottled ==
    \A ip \in DOMAIN blocked_ips, pred \in Predictions, conf \in EventConfidences,
       outcome \in Outcomes :
        RecordAction(blocked_ips[ip]) = "throttled" =>
            LET r == execute_mitigation(blocked_ips, mitigation_history, rules, now,
                                        ip, pred, conf, "eMBB", 500, outcome)
            IN  /\ r.result.status = "already_throttled"
                /\ r.installs = 0
                /\ r.history = mitigation_history
                /\ RecordAction(r.blocked[ip]) = "throttled"
                /\ r.blocked[ip].last_seen = now

\* C17 (as claimed): for an identity without a record, a ddos prediction with
\* throttle_threshold <= confidence < block_threshold makes one install call; the
\* throttle record and the THROTTLED history entry are written if the controller
\* accepts the call, and neither is written if it does not.
C17_ThrottleInstalls ==
    \A ip \in ValidIPs \ DOMAIN blocked_ips, conf \in EventConfidences, outcome \in Outcomes :
        (ThrottleThreshold("eMBB", 500) <= conf /\ conf < BlockThreshold("eMBB", 500)) =>
            LET r == execute_mitigation(blocked_ips, mitigation_history, rules, now,
                                        ip, "ddos", conf, "eMBB", 500, outcome)
            IN  /\ r.installs = 1
                /\ IF outcome = "ok200"
                   THEN /\ ip \in DOMAIN r.blocked
                        /\ RecordAction(r.blocked[ip]) = "throttled"
                        /\ Len(r.history) = Len(mitigation_history) + 1
                        /\ r.history[Len(r.history)].action = "THROTTLED"
                   ELSE r.blocked = blocked_ips /\ r.history = mitigation_history

\* the event does not qualify for BLOCK or THROTTLE: it is no ddos prediction, or
\* its confidence is under the throttle threshold
NoEnforcementDue(pred, conf, slice, load) ==
    pred # "ddos" \/ conf < ThrottleThreshold(slice, load)

\* C18 (as claimed): for an identity without a record, an event that does not
\* qualify for BLOCK or THROTTLE and whose confidence is at least 0.8 x
\* throttle_threshold returns MONITOR with mitigation_applied false, appends one
\* MONITOR entry to the history, writes no record and makes no enforcement call.
C18_Monitored ==
    \A ip \in ValidIPs \ DOMAIN blocked_ips, pred \in Predictions,
       conf \in Confidences \cup BoundaryConfidences, slice \in SliceTypes, load \in Loads :
        (NoEnforcementDue(pred, conf, slice, load)
         /\ 10 * conf >= 8 * ThrottleThreshold(slice, load)) =>
            LET r == execute_mitigation(blocked_ips, mitigation_history, rules, now,
                                        ip, pred, conf, slice, load, "ok200")
            IN  /\ r.result.action = "MONITOR"
                /\ ~r.result.mitigation_applied
                /\ r.blocked = blocked_ips
                /\ r.rules = rules
                /\ r.installs = 0
                /\ Len(r.history) = Len(mitigation_history) + 1
                /\ r.history[Len(r.history)].action = "MONITOR"

\* C19: for an identity without a record, an event whose confidence is under 0.8 x
\* throttle_threshold returns status normal with no action and mitigation_applied
\* false, and leaves the records, the history and the flow table as they are,
\* without an enforcement call, whatever the prediction and the controller.
C19_Allowed ==
    \A ip \in ValidIPs \ DOMAIN blocked_ips, pred \in Predictions,
       conf \in Confidences \cup BoundaryConfidences, slice \in SliceTypes, load \in Loads :
        10 * conf < 8 * ThrottleThreshold(slice, load) =>
            execute_mitigation(blocked_ips, mitigation_history, rules, now,
                               ip, pred, conf, slice, load, "error")
            = [blocked |-> blocked_ips, rules |-> rules, history |-> mitigation_history,
               installs |-> 0,
               result |-> [status |-> "normal", ip |-> ip, confidence |-> conf,
                           action |-> "None", slice |-> slice,
                           threshold_used |-> ThrottleThreshold(slice, load),
                           mitigation_applied |-> FALSE]]

\* C19 witness: the engine holds a record and a history entry, and the other
\* identity has no record, so that an allowed event for it has something to leave
\* alone
C19_Witness ==
    \E ip \in ValidIPs \ DOMAIN blocked_ips :
        /\ DOMAIN blocked_ips # {}
        /\ rules # {}
        /\ Len(mitigation_history) > 0
        /\ mitigation_history[Len(mitigation_history)].ip = ip
        /\ mitigation_history[Len(mitigation_history)].action = "MONITOR"

(***************************************************************************)
(* The decision as a function of its inputs: one event is drawn, and the   *)
(* if / elif chain of execute_mitigation is applied to it.                 *)
(***************************************************************************)
AllConfidences == Confidences \cup BoundaryConfidences

\* block thresholds a policy could be raised to
RaisedBlockThresholds == {600, 650, 700, 750, 800, 900, 950, 1000}

DecisionInit ==
    /\ now = 0
    /\ blocked_ips = EmptyDict
    /\ mitigation_history = <<>>
    /\ auto_unblock = TRUE
    /\ rules = {}
    /\ WorkersIdle /\ GatewayIdle /\ CacheIdle /\ RateIdle /\ FeedbackIdle
    /\ rq = NoRequest
    /\ dq \in [pc : {"asked"}, pred : Predictions, conf : AllConfidences,
               slice : SliceTypes, load : Loads, action : {"-"}]

\* mitigation_action for the event, the controller accepting what it is asked
ActionFor(pred, conf, slice, load) ==
    MitigationAction(Decision(pred, conf, slice, load), TRUE)

Decide ==
    /\ dq.pc = "asked"
    /\ dq' = [dq EXCEPT !.pc = "decided",
                        !.action = ActionFor(dq.pred, dq.conf, dq.slice, dq.load)]
    /\ UNCHANGED <<engineVars, workerVars, gatewayVars, cacheVars, rateVars, feedbackVars, rq>>

DecisionNext == Decide

DecisionSpec == DecisionInit /\ [][DecisionNext]_vars

\* ALLOWED < MONITORED < THROTTLED < BLOCKED
ActionRank(action) ==
    CASE action = "BLOCKED" -> 3
      [] action = "THROTTLED" -> 2
      [] action = "MONITOR" -> 1
      [] OTHER -> 0

C32_AdaptiveTightening ==
    dq.pc = "decided" =>
        LET p == SlicePolicy(dq.slice)
            blockDue == /\ dq.pred = "ddos"
                        /\ IF dq.load > 800 THEN 10 * dq.conf >= 9 * p.block_threshold
                           ELSE dq.conf >= p.block_threshold
            throttleDue == /\ dq.pred = "ddos"
                           /\ IF dq.load > 800 THEN 10 * dq.conf >= 8 * p.throttle_threshold
                              ELSE dq.conf >= p.throttle_threshold
        IN  /\ dq.action = "BLOCKED" <=> blockDue
            /\ dq.action = "THROTTLED" <=> (~blockDue /\ throttleDue)

\* What the tightening does: the same statement with the two products taken as
\* the doubles block_threshold * 0.9 and throttle_threshold * 0.8, and with the
\* scaled threshold never under 0.9 (0.8) of the configured one by more than the
\* rounding to three decimals.
TighteningWithFloatProducts ==
    dq.pc = "decided" =>
        LET p == SlicePolicy(dq.slice)
            bt == IF dq.load > 800 THEN FloatTimes(Float(p.block_threshold), 9)
                  ELSE Float(p.block_threshold)
            tt == IF dq.load > 800 THEN FloatTimes(Float(p.throttle_threshold), 8)
                  ELSE Float(p.throttle_threshold)
            blockDue == dq.pred = "ddos" /\ AtLeast(dq.conf, bt)
            throttleDue == dq.pred = "ddos" /\ AtLeast(dq.conf, tt)
        IN  /\ dq.action = "BLOCKED" <=> blockDue
            /\ dq.action = "THROTTLED" <=> (~blockDue /\ throttleDue)
            /\ dq.load > 800 => /\ 10 * bt.m <= 9 * p.block_threshold
                                /\ 10 * bt.m > 9 * p.block_threshold - 10
                                /\ 10 * tt.m = 8 * p.throttle_threshold
            /\ dq.load <= 800 => bt.m = p.block_threshold /\ tt.m = p.throttle_threshold

(***************************************************************************)
(* RateTracker of app.py.  The capture loop hands it time.time(), which    *)
(* the system clock may set back; add() takes any timestamp.               *)
(***************************************************************************)
window == 1

\* while q and ts - q[0] > self.window: q.popleft()
PruneLeft(q, ts) ==
    LET gone == {i \in 1..Len(q) : \A j \in 1..i : ts - q[j] > window}
    IN  SubSeq(q, Cardinality(gone) + 1, Len(q))

\* self.timestamps[src_ip]: a defaultdict, the key is created on first use
Touch(tm, ip) == IF ip \in DOMAIN tm THEN tm ELSE Put(tm, ip, <<>>)

\* RateTracker.add(src_ip, ts): the map it leaves
add(tm, ip, ts) == Put(tm, ip, PruneLeft(Append(Touch(tm, ip)[ip], ts), ts))

\* RateTracker.pps(src_ip): len(q) / window as the pair numerator, denominator
pps(tm, ip) == [num |-> Len(Touch(tm, ip)[ip]), den |-> window]

RateInit ==
    /\ now = 0
    /\ blocked_ips = EmptyDict
    /\ mitigation_history = <<>>
    /\ auto_unblock = TRUE
    /\ rules = {}
    /\ WorkersIdle /\ GatewayIdle /\ CacheIdle /\ FeedbackIdle
    /\ rq = NoRequest /\ dq = NoDecision
    /\ timestamps = EmptyDict
    /\ recorded = EmptyDict

\* rate_tracker.add(src_ip, ts)
RateAdd ==
    \E ip \in ValidIPs, ts \in 0..MaxStamp :
        /\ ip \in DOMAIN recorded => Len(recorded[ip]) < MaxEvents
        /\ timestamps' = add(timestamps, ip, ts)
        /\ recorded' = Put(recorded, ip, Append(Touch(recorded, ip)[ip], ts))
    /\ UNCHANGED <<engineVars, workerVars, gatewayVars, cacheVars, feedbackVars, rq, dq>>

\* rate_tracker.pps(src_ip): reading the rate of an address creates its deque
RatePps ==
    \E ip \in ValidIPs :
        /\ timestamps' = Touch(timestamps, ip)
        /\ recorded' = Touch(recorded, ip)
    /\ UNCHANGED <<engineVars, workerVars, gatewayVars, cacheVars, feedbackVars, rq, dq>>

RateNext == RateAdd \/ RatePps

RateSpec == RateInit /\ [][RateNext]_vars

\* the timestamps handed in for ip that lie within window of the latest one
InWindowOfLatest(ip) ==
    LET rec == recorded[ip]
    IN  {i \in 1..Len(rec) : rec[Len(rec)] - rec[i] <= window}

Nondecreasing(q) == \A i \in 1..Len(q), j \in 1..Len(q) : i <= j => q[i] <= q[j]

\* C12: whatever timestamps were handed in for an address, its rate is
\* the number of them within window of the latest one, divided by window.
C12_RateIsWindowCount ==
    \A ip \in DOMAIN recorded :
        recorded[ip] # <<>> =>
            pps(timestamps, ip) =
                [num |-> Cardinality(InWindowOfLatest(ip)), den |-> window]

\* Where add() and the window count agree: timestamps handed in for an address in
\* non-decreasing order; an address nothing was recorded for has rate 0.
RateIsWindowCountInOrder ==
    /\ \A ip \in DOMAIN recorded :
        (recorded[ip] # <<>> /\ Nondecreasing(recorded[ip])) =>
            pps(timestamps, ip) =
                [num |-> Cardinality(InWindowOfLatest(ip)), den |-> window]
    /\ \A ip \in ValidIPs :
        (ip \notin DOMAIN recorded \/ recorded[ip] = <<>>) => pps(timestamps, ip).num = 0

\* the largest timestamp handed in for ip so far
Newest(ip) ==
    LET rec == recorded[ip]
    IN  CHOOSE m \in {rec[i] : i \in 1..Len(rec)} : \A i \in 1..Len(rec) : rec[i] <= m

\* C31: after every add, in whatever order the timestamps came, every
\* timestamp an address retains lies within window of the largest timestamp
\* recorded for it so far.
C31_RetainedWithinWindow ==
    \A ip \in DOMAIN recorded :
        recorded[ip] # <<>> =>
            \A i \in 1..Len(timestamps[ip]) : Newest(ip) - timestamps[ip][i] <= window

\* What add() keeps for any order of timestamps: after the left pruning the
\* head of the deque lies within window of the timestamp just added; and for
\* timestamps handed in in non-decreasing order every retained one does.
HeadWithinWindowOfLast ==
    \A ip \in DOMAIN recorded :
        recorded[ip] # <<>> =>
            /\ timestamps[ip] # <<>>
            /\ recorded[ip][Len(recorded[ip])] - timestamps[ip][1] <= window
            /\ Nondecreasing(recorded[ip]) =>
                  \A i \in 1..Len(timestamps[ip]) :
                      Newest(ip) - timestamps[ip][i] <= window

(***************************************************************************)
(* OnlineLearningEngine of online_learning.py.  retrains_started counts    *)
(* the threads started on _retrain_model, which reads the buffer and       *)
(* changes none of the engine's fields.                                    *)
(***************************************************************************)
Labels == {"normal", "ddos"}

\* a buffer that, once full, turns the new item away and keeps its oldest
AppendKeepingOldest(q, item) ==
    IF Len(q) >= feedback_window THEN q ELSE Append(q, item)

\* deque(maxlen=feedback_window).append(item): a full deque drops its oldest item
AppendBounded(q, item) ==
    IF feedback_window = 0 THEN <<>>
    ELSE IF Len(q) >= feedback_window THEN Append(Tail(q), item)
    ELSE Append(q, item)

\* the item add_feedback stores, without features, confidence and timestamp
FeedbackItem(true_label, predicted_label) ==
    [true |-> true_label, predicted |-> predicted_label,
     correct |-> (true_label = predicted_label)]

\* get_learning_metrics()['ready_for_retrain']
ready_for_retrain == Len(feedback_buffer) >= retrain_threshold

FeedbackInit ==
    /\ now = 0
    /\ blocked_ips = EmptyDict
    /\ mitigation_history = <<>>
    /\ auto_unblock = TRUE
    /\ rules = {}
    /\ WorkersIdle /\ GatewayIdle /\ CacheIdle /\ RateIdle
    /\ rq = NoRequest /\ dq = NoDecision
    /\ feedback_buffer = <<>>
    /\ total_predictions = 0
    /\ correct_predictions = 0
    /\ retrains_started = 0
    /\ fed = <<>>

\* add_feedback(features, true_label, predicted_label, confidence)
AddFeedback ==
    \E true_label \in Labels, predicted_label \in Labels :
        /\ total_predictions < MaxFeedback
        /\ feedback_buffer' =
               AppendBounded(feedback_buffer, FeedbackItem(true_label, predicted_label))
        /\ total_predictions' = total_predictions + 1
        /\ correct_predictions' =
               IF true_label = predicted_label THEN correct_predictions + 1
               ELSE correct_predictions
        /\ retrains_started' =
               IF Len(feedback_buffer') >= retrain_threshold THEN retrains_started + 1
               ELSE retrains_started
        /\ fed' = Append(fed, FeedbackItem(true_label, predicted_label))
    /\ UNCHANGED <<engineVars, workerVars, gatewayVars, cacheVars, rateVars, rq, dq>>

FeedbackNext == AddFeedback

FeedbackSpec == FeedbackInit /\ [][FeedbackNext]_vars

\* C13: a retrain is started by the sample that brings the buffer up to
\* retrain_threshold, and by no later sample while the buffer stays at or above it.
C13_FiresOncePerCrossing ==
    [][ /\ (~ready_for_retrain /\ Len(feedback_buffer') >= retrain_threshold)
            => retrains_started' = retrains_started + 1
        /\ (ready_for_retrain /\ Len(feedback_buffer') >= retrain_threshold)
            => retrains_started' = retrains_started ]_vars

\* What add_feedback does instead: one start for every sample that leaves the buffer
\* at or above retrain_threshold, and the buffer never shrinks.
RetrainPerSample ==
    /\ Len(feedback_buffer) = (IF total_predictions < feedback_window
                               THEN total_predictions ELSE feedback_window)
    /\ retrains_started = (IF total_predictions < retrain_threshold
                              \/ feedback_window < retrain_threshold THEN 0
                           ELSE total_predictions - retrain_threshold + 1)
    /\ correct_predictions <= total_predictions

(***************************************************************************)
(* SDNController._make_request of sdn_controller.py, one step at a time.   *)
(* rq is the call in progress: attempt is the loop variable, answers what  *)
(* the attempts so far ended with, sleeps the arguments of time.sleep.     *)
(* session.request is called without a timeout argument (the attribute     *)
(* session.timeout set in __init__ is not read by requests), so an attempt *)
(* the controller never answers does not end.                              *)
(***************************************************************************)
retry_delay == 1

Endpoints == {"/stats/flowentry/add", "/stats/flowentry/delete"}

\* requests.exceptions.RequestException: raise_for_status on 4xx/5xx, transport errors
IsRequestException(answer) == answer \in {"http500", "timeout"}

RetryInit ==
    /\ now = 0
    /\ blocked_ips = EmptyDict
    /\ mitigation_history = <<>>
    /\ auto_unblock = TRUE
    /\ rules = {}
    /\ WorkersIdle /\ GatewayIdle /\ CacheIdle /\ RateIdle /\ FeedbackIdle
    /\ dq = NoDecision
    /\ rq \in [pc : {"request"}, endpoint : Endpoints, ip : ValidIPs,
               attempt : {0}, answers : {<<>>}, sleeps : {<<>>}]

\* response = self.session.request(method, url, **kwargs) is issued
RetrySend ==
    /\ rq.pc = "request"
    /\ rq.attempt < retry_count
    /\ rq' = [rq EXCEPT !.pc = "waiting"]
    /\ UNCHANGED <<engineVars, workerVars, gatewayVars, cacheVars, rateVars, feedbackVars, dq>>

\* the attempt ends: return response, or the except branch
RetryAnswer ==
    /\ rq.pc = "waiting"
    /\ \E answer \in Answers :
        rq' = IF ~IsRequestException(answer)
              THEN [rq EXCEPT !.pc = "returned", !.answers = Append(@, answer)]
              ELSE IF rq.attempt < retry_count - 1
              THEN [rq EXCEPT !.pc = "sleeping", !.answers = Append(@, answer),
                              !.sleeps = Append(@, retry_delay * (rq.attempt + 1))]
              ELSE [rq EXCEPT !.pc = "raised", !.answers = Append(@, answer)]
    /\ UNCHANGED <<engineVars, workerVars, gatewayVars, cacheVars, rateVars, feedbackVars, dq>>

\* the controller holds the connection and never answers: session.request blocks
RetryHang ==
    /\ rq.pc = "waiting"
    /\ rq' = [rq EXCEPT !.pc = "hung"]
    /\ UNCHANGED <<engineVars, workerVars, gatewayVars, cacheVars, rateVars, feedbackVars, dq>>

\* time.sleep returns and the loop goes to its next attempt
RetryWake ==
    /\ rq.pc = "sleeping"
    /\ rq' = [rq EXCEPT !.pc = "request", !.attempt = @ + 1]
    /\ UNCHANGED <<engineVars, workerVars, gatewayVars, cacheVars, rateVars, feedbackVars, dq>>

RetryNext == RetrySend \/ RetryAnswer \/ RetryHang \/ RetryWake

RetrySpec == RetryInit /\ [][RetryNext]_vars

\* every step of the call that can be taken is taken
RetryFairSpec == RetrySpec /\ WF_vars(RetryNext)

\* attempts issued so far
Attempts == Len(rq.answers) + (IF rq.pc \in {"waiting", "hung"} THEN 1 ELSE 0)

FailedAttempts == Cardinality({i \in 1..Len(rq.answers) : IsRequestException(rq.answers[i])})

\* The retry discipline: at most retry_count attempts, none after a successful one,
\* a wait of retry_delay * k after the k-th failed attempt and none after the last.
RetryDiscipline ==
    /\ Attempts <= retry_count
    /\ \A i \in 1..Len(rq.answers) :
        ~IsRequestException(rq.answers[i]) => (i = Len(rq.answers) /\ rq.pc = "returned")
    /\ rq.pc = "returned" => ~IsRequestException(rq.answers[Len(rq.answers)])
    /\ rq.pc = "raised" => FailedAttempts = retry_count
    /\ Len(rq.sleeps) = (IF FailedAttempts < retry_count THEN FailedAttempts
                         ELSE retry_count - 1)
    /\ \A k \in 1..Len(rq.sleeps) : rq.sleeps[k] = retry_delay * k

\* C20: a call makes at most retry_count attempts, stops at the first successful
\* one, waits retry_delay * k after the k-th failed attempt and not after the last,
\* and always comes to an end, returning the response or raising the last error.
C20_BoundedRetryTerminates ==
    /\ []RetryDiscipline
    /\ <>(rq.pc \in {"returned", "raised"})

\* all retry_count attempts failed, with the waits retry_delay * 1 and * 2 in between
RetryExhausted ==
    /\ rq.pc = "raised"
    /\ rq.sleeps = <<retry_delay, retry_delay * 2>>

(***************************************************************************)
(* What a caller of SDNController.block_ip / throttle_ip / unblock_ip gets *)
(* back.  rq is the call: tries[i] is what attempt i of _make_request      *)
(* would end in.                                                           *)
(***************************************************************************)
GatewayOps == {"block_ip", "throttle_ip", "unblock_ip"}

AllTriesFail(tries) == \A i \in 1..retry_count : IsRequestException(tries[i])

\* the exception that leaves _make_request: that of the last attempt when every
\* attempt failed ('raise' in the except branch), none otherwise
MakeRequestRaises(tries) ==
    IF AllTriesFail(tries) THEN tries[retry_count] ELSE "none"

\* install_flow_rule / remove_flow_rule around _make_request: 'except Exception'
\* logs the error and returns False, so nothing is raised to the caller
FlowRuleCall(tries) ==
    LET r == MakeRequest(tries)
    IN  [returned |-> install_flow_rule(r.outcome),
         raised |-> "none",
         logged |-> MakeRequestRaises(tries),
         attempts |-> r.attempts]

SurfaceInit ==
    /\ now = 0
    /\ blocked_ips = EmptyDict
    /\ mitigation_history = <<>>
    /\ auto_unblock = TRUE
    /\ rules = {}
    /\ WorkersIdle /\ GatewayIdle /\ CacheIdle /\ RateIdle /\ FeedbackIdle
    /\ dq = NoDecision
    /\ rq \in [pc : {"called"}, op : GatewayOps, ip : ValidIPs,
               tries : [1..retry_count -> Answers]]

\* block_ip / throttle_ip / unblock_ip return 'success' of the flow rule call
GatewayReturn ==
    /\ rq.pc = "called"
    /\ rq' = [pc |-> "done", op |-> rq.op, ip |-> rq.ip, tries |-> rq.tries,
              result |-> FlowRuleCall(rq.tries)]
    /\ UNCHANGED <<engineVars, workerVars, gatewayVars, cacheVars, rateVars, feedbackVars, dq>>

SurfaceNext == GatewayReturn

SurfaceSpec == SurfaceInit /\ [][SurfaceNext]_vars

\* C21: when every attempt of a block_ip, throttle_ip or unblock_ip call failed, the
\* caller is handed the error of the last attempt, after retry_count attempts; when
\* an attempt succeeded no error reaches the caller.
C21_LastErrorSurfaced ==
    rq.pc = "done" =>
        /\ AllTriesFail(rq.tries) =>
            (rq.result.raised = rq.tries[retry_count] /\ rq.result.attempts = retry_count)
        /\ ~AllTriesFail(rq.tries) => rq.result.raised = "none"

\* What the caller gets instead: False after retry_count attempts, the error of the
\* last attempt only in the log; _make_request itself raises that error.
LastErrorLogged ==
    rq.pc = "done" =>
        /\ rq.result.raised = "none"
        /\ AllTriesFail(rq.tries) =>
            /\ rq.result.returned = FALSE
            /\ rq.result.logged = rq.tries[retry_count]
            /\ rq.result.attempts = retry_count
        /\ ~AllTriesFail(rq.tries) =>
            /\ rq.result.returned = TRUE
            /\ rq.result.logged = "none"
            /\ rq.result.attempts <= retry_count
            /\ \A i \in 1..(rq.result.attempts - 1) : IsRequestException(rq.tries[i])

(***************************************************************************)
(* PerformanceCache again (CacheSpec): what get does to the access time    *)
(* and what set does at capacity.                                          *)
(***************************************************************************)

\* C22: a get that finds a live entry returns it and sets its last access time to
\* the time of the lookup; a get that finds an expired entry removes it and
\* returns None.
C22_SlidingExpiry ==
    \A k \in DOMAIN cache :
        LET r == get(cache, access_times, k, now)
        IN  IF now - AccessTime(access_times, k) < ttl
            THEN /\ r.value = cache[k]
                 /\ HasKey(r.access_times, k)
                 /\ AccessTime(r.access_times, k) = now
            ELSE /\ r.value = "None"
                 /\ k \notin DOMAIN r.cache
                 /\ ~HasKey(r.access_times, k)

\* What get does instead: a hit changes nothing, so the lifetime of an entry runs
\* from the set that stored it, however often it is read.
GetLeavesAccessTime ==
    \A k \in DOMAIN cache :
        LET r == get(cache, access_times, k, now)
        IN  IF now - AccessTime(access_times, k) < ttl
            THEN r = [cache |-> cache, access_times |-> access_times, value |-> cache[k]]
            ELSE r = [cache |-> Del(cache, k),
                      access_times |-> RemoveKey(access_times, k), value |-> "None"]
\* the keys of a whose access time no other key's is below
LeastRecent(a) ==
    {k \in Keys : HasKey(a, k) /\ \A i \in 1..Len(a) : AccessTime(a, k) <= a[i][2]}

model_accuracy ==
    [num |-> correct_predictions,
     den |-> IF total_predictions > 1 THEN total_predictions ELSE 1]

\* get_learning_metrics()
get_learning_metrics ==
    [accuracy |-> model_accuracy,
     total_predictions |-> total_predictions,
     correct_predictions |-> correct_predictions,
     feedback_buffer_size |-> Len(feedback_buffer),
     ready_for_retrain |-> ready_for_retrain]

CorrectCalls == Cardinality({i \in 1..Len(fed) : fed[i].true = fed[i].predicted})

Min(a, b) == IF a <= b THEN a ELSE b

\* C24: after any calls of add_feedback the metrics report as total the number of
\* calls, as accuracy the share of all calls with true label = predicted label,
\* evicted samples included, and as buffer size min(calls, feedback_window), the
\* buffer holding the latest samples in order.
C24_AllTimeMetrics ==
    LET m == get_learning_metrics
        kept == Min(Len(fed), feedback_window)
    IN  /\ m.total_predictions = Len(fed)
        /\ m.correct_predictions = CorrectCalls
        /\ Len(fed) > 0 => m.accuracy = [num |-> CorrectCalls, den |-> Len(fed)]
        /\ m.feedback_buffer_size = kept
        /\ feedback_buffer = SubSeq(fed, Len(fed) - kept + 1, Len(fed))

\* C24 witness: samples have been dropped from a full buffer, a correct one among
\* them, and the buffer holds only wrong ones: the accuracy over the buffer is 0
\* while the accuracy over all calls is not
C24_Witness ==
    /\ Len(fed) > feedback_window
    /\ \A i \in 1..Len(feedback_buffer) : ~feedback_buffer[i].correct
    /\ \E i \in 1..(Len(fed) - feedback_window) : fed[i].correct
    /\ get_learning_metrics.accuracy.num > 0

(***************************************************************************)
(* IntelligentSliceManager.classify_slice_with_ml of network_slicing.py.   *)
(* Sizes and rates are integers, confidences per mille, scores tenths,     *)
(* bandwidth weights per mille.                                            *)
(***************************************************************************)
slice_definitions ==
    [eMBB |-> [priority |-> 2, bandwidth_weight |-> 500],
     URLLC |-> [priority |-> 1, bandwidth_weight |-> 300],
     mMTC |-> [priority |-> 3, bandwidth_weight |-> 200]]

\* self.traffic_patterns, in the order of the dict
traffic_patterns ==
    << [name |-> "video_streaming", packet_size |-> 1200, pps |-> 30, protocol |-> "TCP"],
       [name |-> "iot_heartbeat", packet_size |-> 100, pps |-> 1, protocol |-> "UDP"],
       [name |-> "gaming", packet_size |-> 500, pps |-> 50, protocol |-> "UDP"],
       [name |-> "voip", packet_size |-> 200, pps |-> 50, protocol |-> "UDP"],
       [name |-> "file_transfer", packet_size |-> 1500, pps |-> 10, protocol |-> "TCP"] >>

PacketSizes == {100, 150, 250, 1200, 1500}
PacketRates == {1, 10, 30, 60, 250}
Protocols == {"TCP", "UDP", "ICMP"}
SignalConfidences == {500, 700, 701, 900, 901, 950}

\* ml_prediction: None, or a dict with a prediction and a confidence
MlPredictions ==
    {[given |-> FALSE, prediction |-> "-", confidence |-> 0]}
    \cup [given : {TRUE}, prediction : Predictions, confidence : SignalConfidences]

Abs(x) == IF x < 0 THEN -x ELSE x

\* the score of one pattern: 0.4 for the size within 30%, 0.4 for the rate within
\* 50%, 0.2 for the protocol
PatternScore(c, packet_size, packet_rate, protocol) ==
    (IF 10 * Abs(packet_size - c.packet_size) < 3 * c.packet_size THEN 4 ELSE 0)
    + (IF 2 * Abs(packet_rate - c.pps) < (IF c.pps > 1 THEN c.pps ELSE 1) THEN 4 ELSE 0)
    + (IF protocol = c.protocol THEN 2 ELSE 0)

\* _identify_traffic_pattern: the first pattern of the best score, if above 0.5
identify_traffic_pattern(packet_size, packet_rate, protocol) ==
    LET score(i) == PatternScore(traffic_patterns[i], packet_size, packet_rate, protocol)
        best == CHOOSE i \in 1..Len(traffic_patterns) :
                    /\ \A j \in 1..Len(traffic_patterns) : score(j) <= score(i)
                    /\ \A j \in 1..(i - 1) : score(j) < score(i)
    IN  IF score(best) > 5 THEN traffic_patterns[best].name ELSE "unknown"

\* _calculate_congestion_factor, in tenths
calculate_congestion_factor(packet_rate) ==
    IF packet_rate > 1000 THEN 8
    ELSE IF packet_rate > 500 THEN 5
    ELSE IF packet_rate > 100 THEN 2 ELSE 0

\* the if / elif / else over the traffic characteristics
PatternSlice(packet_size, packet_rate, protocol) ==
    LET traffic_pattern == identify_traffic_pattern(packet_size, packet_rate, protocol)
    IN  IF \/ packet_rate > 200
           \/ protocol = "ICMP"
           \/ (packet_size < 300 /\ packet_rate > 50)
           \/ traffic_pattern \in {"iot_heartbeat", "voip", "gaming"}
        THEN "URLLC"
        ELSE IF (packet_size < 200 /\ packet_rate < 20) \/ traffic_pattern = "iot_heartbeat"
        THEN "mMTC"
        ELSE "eMBB"

\* a policy that lets the hits counted so far for the slice raise its priority
ApplySlicePolicyByHits(slice_name, packet_rate, is_urgent) ==
    LET slice_info == slice_definitions[slice_name]
        congestion_factor == calculate_congestion_factor(packet_rate)
        adjusted_bandwidth == (slice_info.bandwidth_weight * (100 - 3 * congestion_factor)) \div 100
    IN  [slice |-> slice_name,
         priority |-> slice_info.priority - (IF is_urgent THEN 1 ELSE 0)
                      - (IF dq.hits[slice_name] > 0 THEN 1 ELSE 0),
         action |-> "-",
         bandwidth_weight |-> IF adjusted_bandwidth > 100 THEN adjusted_bandwidth ELSE 100,
         throttle_factor |-> 0,
         counted |-> {slice_name}]

\* _apply_slice_policy
apply_slice_policy(slice_name, packet_rate, is_urgent) ==
    LET slice_info == slice_definitions[slice_name]
        congestion_factor == calculate_congestion_factor(packet_rate)
        adjusted_bandwidth == (slice_info.bandwidth_weight * (100 - 3 * congestion_factor)) \div 100
    IN  [slice |-> slice_name,
         priority |-> slice_info.priority - (IF is_urgent THEN 1 ELSE 0),
         action |-> "-",
         bandwidth_weight |-> IF adjusted_bandwidth > 100 THEN adjusted_bandwidth ELSE 100,
         throttle_factor |-> 0,
         counted |-> {slice_name}]

\* a signal band whose upper bar belongs to the quarantine side
SignalBandInclusive(ml) ==
    IF ml.given /\ ml.prediction = "ddos"
    THEN IF ml.confidence >= 900 THEN "high"
         ELSE IF ml.confidence > 700 THEN "medium" ELSE "none"
    ELSE "none"

\* 'if ml_prediction and ml_prediction.get('prediction') == 'ddos'' and the two bars
SignalBand(ml) ==
    IF ml.given /\ ml.prediction = "ddos"
    THEN IF ml.confidence > 900 THEN "high"
         ELSE IF ml.confidence > 700 THEN "medium" ELSE "none"
    ELSE "none"

\* classify_slice_with_ml(packet_features, ml_prediction); counted is the slice
\* whose hits counter in slice_performance goes up
classify_slice_with_ml(packet_size, packet_rate, protocol, is_urgent, ml) ==
    CASE SignalBand(ml) = "high" ->
            [slice |-> "QUARANTINE", priority |-> 0, action |-> "BLOCK",
             bandwidth_weight |-> 10, throttle_factor |-> 0, counted |-> {}]
      [] SignalBand(ml) = "medium" ->
            [slice |-> "URLLC", priority |-> 1, action |-> "THROTTLE",
             bandwidth_weight |-> 0, throttle_factor |-> 100, counted |-> {}]
      [] OTHER ->
            apply_slice_policy(PatternSlice(packet_size, packet_rate, protocol), packet_rate, is_urgent)

NoResult == [slice |-> "-"]

ClassifyInit ==
    /\ now = 0
    /\ blocked_ips = EmptyDict
    /\ mitigation_history = <<>>
    /\ auto_unblock = TRUE
    /\ rules = {}
    /\ WorkersIdle /\ GatewayIdle /\ CacheIdle /\ RateIdle /\ FeedbackIdle
    /\ rq = NoRequest
    /\ dq \in [pc : {"classify"}, packet_size : PacketSizes, pps : PacketRates,
               protocol : Protocols, is_urgent : BOOLEAN, ml : MlPredictions,
               result : {NoResult}]

Classify ==
    /\ dq.pc = "classify"
    /\ dq' = [dq EXCEPT !.pc = "classified",
                        !.result = classify_slice_with_ml(dq.packet_size, dq.pps, dq.protocol,
                                                          dq.is_urgent, dq.ml)]
    /\ UNCHANGED <<engineVars, workerVars, gatewayVars, cacheVars, rateVars, feedbackVars, rq>>

ClassifyNext == Classify

ClassifySpec == ClassifyInit /\ [][ClassifyNext]_vars

\* the classification by traffic characteristics alone
ByCharacteristics ==
    apply_slice_policy(PatternSlice(dq.packet_size, dq.pps, dq.protocol), dq.pps, dq.is_urgent)

\* C25 (as claimed): a signal with confidence above 0.9 gives QUARANTINE with
\* priority 0 and a signal with confidence in (0.7, 0.9] the throttle slice, whatever
\* the traffic characteristics; every other event is classified by its
\* characteristics.
C25_SignalFirst ==
    dq.pc = "classified" =>
        IF dq.ml.given /\ dq.ml.confidence > 900
        THEN dq.result.slice = "QUARANTINE" /\ dq.result.priority = 0
        ELSE IF dq.ml.given /\ dq.ml.confidence > 700
        THEN dq.result.slice = "URLLC" /\ dq.result.action = "THROTTLE"
        ELSE dq.result = ByCharacteristics

\* C25 (amended): a signal predicting ddos with confidence above 0.9 gives QUARANTINE
\* with priority 0 and action BLOCK, one predicting ddos with confidence in
\* (0.7, 0.9] gives URLLC with action THROTTLE at a tenth of the bandwidth,
\* whatever the traffic characteristics; every other event, a signal predicting
\* normal at any confidence included, is classified by its characteristics.
C25_ThreatSignalFirst ==
    dq.pc = "classified" =>
        IF dq.ml.given /\ dq.ml.prediction = "ddos" /\ dq.ml.confidence > 900
        THEN /\ dq.result.slice = "QUARANTINE" /\ dq.result.priority = 0
             /\ dq.result.action = "BLOCK"
        ELSE IF dq.ml.given /\ dq.ml.prediction = "ddos" /\ dq.ml.confidence > 700
        THEN /\ dq.result.slice = "URLLC" /\ dq.result.priority = 1
             /\ dq.result.action = "THROTTLE" /\ dq.result.throttle_factor = 100
        ELSE dq.result = ByCharacteristics

\* C25 witness: a ddos signal at exactly 0.9 for traffic whose characteristics alone
\* say eMBB has been put into the throttle slice
C25_Witness ==
    /\ dq.pc = "classified"
    /\ dq.ml.given /\ dq.ml.prediction = "ddos" /\ dq.ml.confidence = 900
    /\ ByCharacteristics.slice = "eMBB"
    /\ dq.result.slice = "URLLC" /\ dq.result.action = "THROTTLE"

\* small-size and low-rate, and not ICMP
SmallAndSlow == dq.packet_size < 200 /\ dq.pps < 20 /\ dq.protocol # "ICMP"

\* low-size and high-rate, or ICMP: the rate and size bars of the URLLC branch
SmallAndFastOrIcmp ==
    dq.pps > 200 \/ dq.protocol = "ICMP" \/ (dq.packet_size < 300 /\ dq.pps > 50)

\* the archetypes the URLLC branch names
LatencyArchetypes == {"iot_heartbeat", "voip", "gaming"}

\* C35: without a threat signal, a flow with packet size < 200 and rate < 20 that
\* is not ICMP gets mMTC whichever archetype it matches best; a low-size/high-rate
\* or ICMP flow gets URLLC; every other flow gets eMBB.
C35_SmallSlowIsMachineType ==
    (dq.pc = "classified" /\ SignalBand(dq.ml) = "none") =>
        dq.result.slice = (IF SmallAndSlow THEN "mMTC"
                           ELSE IF SmallAndFastOrIcmp THEN "URLLC"
                           ELSE "eMBB")

\* What the branches do: the archetype is looked at first.  A flow whose best
\* archetype is iot_heartbeat, voip or gaming gets URLLC, small and slow or not;
\* of the others the rate and size bars decide as C35 says.
ArchetypeBeforeSize ==
    (dq.pc = "classified" /\ SignalBand(dq.ml) = "none") =>
        dq.result.slice =
            (IF identify_traffic_pattern(dq.packet_size, dq.pps, dq.protocol) \in LatencyArchetypes
             THEN "URLLC"
             ELSE IF SmallAndFastOrIcmp THEN "URLLC"
             ELSE IF SmallAndSlow THEN "mMTC"
             ELSE "eMBB")

(***************************************************************************)
(* get_network_slice, the module-level function extract_features calls: a  *)
(* new manager, one classify_slice_with_ml call, and the result copied     *)
(* into the legacy format.                                                 *)
(***************************************************************************)
\* the keys of the dictionary classify_slice_with_ml returned: the two signal
\* branches build theirs without 'description' and 'bandwidth_weight'
HasDescription(result) == result.counted # {}

\* get_network_slice(packet_size, protocol, pps, ml_prediction): result["slice"],
\* result["priority"], result.get("bandwidth_weight", 0.5), result["description"]
get_network_slice(packet_size, protocol, packet_rate, ml) ==
    LET result == classify_slice_with_ml(packet_size, packet_rate, protocol, FALSE, ml)
    IN  IF HasDescription(result)
        THEN [raised |-> "none", slice |-> result.slice, priority |-> result.priority,
              bandwidth_weight |-> result.bandwidth_weight, description |-> result.slice]
        ELSE [raised |-> "KeyError", slice |-> "-", priority |-> -1,
              bandwidth_weight |-> -1, description |-> "-"]

LegacyInit ==
    /\ now = 0
    /\ blocked_ips = EmptyDict
    /\ mitigation_history = <<>>
    /\ auto_unblock = TRUE
    /\ rules = {}
    /\ WorkersIdle /\ GatewayIdle /\ CacheIdle /\ RateIdle /\ FeedbackIdle
    /\ rq = NoRequest
    /\ dq \in [pc : {"call"}, packet_size : PacketSizes, pps : PacketRates,
               protocol : Protocols, ml : MlPredictions, result : {NoResult}]

GetNetworkSlice ==
    /\ dq.pc = "call"
    /\ dq' = [dq EXCEPT !.pc = "left",
                        !.result = get_network_slice(dq.packet_size, dq.protocol, dq.pps, dq.ml)]
    /\ UNCHANGED <<engineVars, workerVars, gatewayVars, cacheVars, rateVars, feedbackVars, rq>>

LegacyNext == GetNetworkSlice

LegacySpec == LegacyInit /\ [][LegacyNext]_vars

\* C38: get_network_slice returns an assignment with slice, priority,
\* bandwidth_weight and description for every input, a ddos signal with a
\* confidence above 0.9 or in (0.7, 0.9] included.
C38_LegacyAlwaysReturns ==
    dq.pc = "left" =>
        /\ dq.result.raised = "none"
        /\ dq.result.slice \in {"eMBB", "URLLC", "mMTC", "QUARANTINE"}
        /\ dq.result.priority >= 0
        /\ dq.result.bandwidth_weight >= 0

\* What get_network_slice does: it returns the assignment made from the traffic
\* characteristics whenever no ddos signal above 0.7 is given, and fails with
\* KeyError on every assignment made from such a signal.
LegacyFailsOnThreatSignal ==
    dq.pc = "left" =>
        IF SignalBand(dq.ml) = "none"
        THEN /\ dq.result.raised = "none"
             /\ dq.result.slice = PatternSlice(dq.packet_size, dq.pps, dq.protocol)
             /\ dq.result.description = dq.result.slice
        ELSE dq.result.raised = "KeyError"

(***************************************************************************)
(* The two ways into the classifier: detection_pipeline and the /predict   *)
(* endpoint of app.py, and MLDetectionEngine.prepare_features.  Only the   *)
(* length and the order of the vector are modelled; the scaler is the      *)
(* fitted StandardScaler, which refuses a row of another width.            *)
(***************************************************************************)

\* the schema loaded from 5g_feature_names.pkl
feature_names == <<"f1", "f2", "f3">>

FeatureKeys == {"f1", "f2", "f3", "other"}
FeatureValues == {1, 2}

\* feature dicts handed to detection_pipeline: any keys, schema or not
FeatureDicts ==
    UNION {[ks -> FeatureValues] : ks \in SUBSET FeatureKeys}

\* feature lists posted to /predict
FeatureLists ==
    UNION {[1..n -> FeatureValues] : n \in 0..MaxFeatures}

\* MLDetectionEngine.prepare_features: pad with zeros or truncate to the schema
prepare_features(v) ==
    [i \in 1..Len(feature_names) |-> IF i <= Len(v) THEN v[i] ELSE 0]

\* np.array([features_dict.get(name, 0) for name in feature_names])
FromDict(d) ==
    [i \in 1..Len(feature_names) |->
        IF feature_names[i] \in DOMAIN d THEN d[feature_names[i]] ELSE 0]

\* scaler.transform(row): ValueError unless the row has the width it was fitted on
ScalerAccepts(v) == Len(v) = Len(feature_names)

\* detection_pipeline(features_dict, src_ip): the row classified
detection_pipeline(d) ==
    LET features_array == FromDict(d)
    IN  IF ScalerAccepts(features_array)
        THEN [status |-> "200", classified |-> features_array]
        ELSE [status |-> "raised", classified |-> <<>>]

\* predict_endpoint(): 400 for no features, 500 for whatever the scaler or the
\* classifier raise, else the classification of the posted row
predict_endpoint(features) ==
    IF features = <<>>
    THEN [status |-> "400", classified |-> <<>>]
    ELSE IF ScalerAccepts(features)
    THEN [status |-> "200", classified |-> features]
    ELSE [status |-> "500", classified |-> <<>>]

PredictInit ==
    /\ now = 0
    /\ blocked_ips = EmptyDict
    /\ mitigation_history = <<>>
    /\ auto_unblock = TRUE
    /\ rules = {}
    /\ WorkersIdle /\ GatewayIdle /\ CacheIdle /\ RateIdle /\ FeedbackIdle
    /\ rq = NoRequest
    /\ \/ dq \in [pc : {"predict"}, path : {"pipeline"}, features : FeatureDicts]
       \/ dq \in [pc : {"predict"}, path : {"direct"}, features : FeatureLists]

PipelinePredict ==
    /\ dq.pc = "predict" /\ dq.path = "pipeline"
    /\ dq' = [pc |-> "predicted", path |-> dq.path, features |-> dq.features,
              result |-> detection_pipeline(dq.features)]
    /\ UNCHANGED <<engineVars, workerVars, gatewayVars, cacheVars, rateVars, feedbackVars, rq>>

DirectPredict ==
    /\ dq.pc = "predict" /\ dq.path = "direct"
    /\ dq' = [pc |-> "predicted", path |-> dq.path, features |-> dq.features,
              result |-> predict_endpoint(dq.features)]
    /\ UNCHANGED <<engineVars, workerVars, gatewayVars, cacheVars, rateVars, feedbackVars, rq>>

PredictNext == PipelinePredict \/ DirectPredict

PredictSpec == PredictInit /\ [][PredictNext]_vars

\* C26: on either path a prediction does not fail, and the row classified has the
\* length of the schema: the posted list padded with zeros or truncated on the
\* direct path, the schema's features in order with 0 for a missing one on the
\* pipeline path.
C26_PadOrTruncate ==
    dq.pc = "predicted" =>
        /\ dq.result.status = "200"
        /\ Len(dq.result.classified) = Len(feature_names)
        /\ dq.path = "direct" => dq.result.classified = prepare_features(dq.features)
        /\ dq.path = "pipeline" => dq.result.classified = FromDict(dq.features)

\* What holds: the pipeline path always classifies a row of the schema's length;
\* the direct path classifies the posted list only if it has that length already
\* and answers with an error for every other list.
DirectPathRefuses ==
    dq.pc = "predicted" =>
        /\ dq.path = "pipeline" =>
            (dq.result.status = "200" /\ dq.result.classified = FromDict(dq.features))
        /\ dq.path = "direct" =>
            IF Len(dq.features) = Len(feature_names)
            THEN dq.result = [status |-> "200", classified |-> dq.features]
            ELSE dq.result.status \in {"400", "500"} /\ dq.result.classified = <<>>

(***************************************************************************)
(* SDNController.__init__ and _check_connection, and the calls made on a   *)
(* controller object once it exists.  rq.health is what the GET on         *)
(* /stats/switches ends in.                                                *)
(***************************************************************************)
Unreachable == {"timeout", "refused"}
ErrorStatus == {"http404", "http500"}

\* 200 with a JSON body, 200 with a body that is not JSON, an error status, no answer
HealthAnswers == {"ok200", "ok200_notjson"} \cup ErrorStatus \cup Unreachable

\* a _check_connection that raises for everything but a 200
CheckConnectionStrict(answer) ==
    IF answer = "ok200"
    THEN [returned |-> TRUE, raised |-> "none"]
    ELSE [returned |-> FALSE, raised |-> "ConnectionError"]

\* a _check_connection that logs what went wrong and returns False
CheckConnectionLenient(answer) ==
    [returned |-> (answer = "ok200"), raised |-> "none"]

\* _check_connection: True for a 200; a warning and False for another status; every
\* exception inside the try (no connection, timeout, a body response.json() cannot
\* read) becomes ConnectionError
check_connection(answer) ==
    IF answer = "ok200"
    THEN [returned |-> TRUE, raised |-> "none"]
    ELSE IF answer \in ErrorStatus
    THEN [returned |-> FALSE, raised |-> "none"]
    ELSE [returned |-> FALSE, raised |-> "ConnectionError"]

StartupInit ==
    /\ now = 0
    /\ blocked_ips = EmptyDict
    /\ mitigation_history = <<>>
    /\ auto_unblock = TRUE
    /\ rules = {}
    /\ WorkersIdle /\ GatewayIdle /\ CacheIdle /\ RateIdle /\ FeedbackIdle
    /\ dq = NoDecision
    /\ rq \in [pc : {"constructing"}, health : HealthAnswers]

\* SDNController(host, port): __init__ ignores what _check_connection returns and
\* lets what it raises through
Construct ==
    /\ rq.pc = "constructing"
    /\ LET c == check_connection(rq.health)
       IN  rq' = IF c.raised = "none"
                 THEN [pc |-> "constructed", health |-> rq.health, healthy |-> c.returned]
                 ELSE [pc |-> "failed", health |-> rq.health, raised |-> c.raised]
    /\ UNCHANGED <<engineVars, workerVars, gatewayVars, cacheVars, rateVars, feedbackVars, dq>>

\* block_ip / throttle_ip / unblock_ip on the constructed object: the outcome of the
\* health check is stored nowhere, every call takes the retry path of _make_request
CallConstructed ==
    /\ rq.pc \in {"constructed", "called"}
    /\ \E op \in GatewayOps, tries \in [1..retry_count -> Answers] :
        rq' = [pc |-> "called", health |-> rq.health, healthy |-> rq.healthy,
               op |-> op, tries |-> tries, result |-> FlowRuleCall(tries)]
    /\ UNCHANGED <<engineVars, workerVars, gatewayVars, cacheVars, rateVars, feedbackVars, dq>>

StartupNext == Construct \/ CallConstructed

StartupSpec == StartupInit /\ [][StartupNext]_vars

\* the controller object exists
Constructed == rq.pc \in {"constructed", "called"}

\* a call that found the controller failing on every attempt reported failure after
\* retry_count attempts
FailsThroughRetryPath ==
    (rq.pc = "called" /\ AllTriesFail(rq.tries)) =>
        (rq.result.returned = FALSE /\ rq.result.attempts = retry_count)

\* C27 (as claimed): when the health check at startup fails, for want of an answer
\* or for an error status, the controller object is constructed all the same, and a
\* later call on it takes the retry path and reports failure.
C27_ConstructedDespiteFailure ==
    (rq.pc # "constructing" /\ rq.health \in ErrorStatus \cup Unreachable) =>
        (Constructed /\ FailsThroughRetryPath)

\* C27 (amended): when the health check at startup gets an error status, the
\* controller object is constructed all the same, and a later call on it that finds
\* the controller failing on every attempt reports failure after retry_count
\* attempts.
C27_ConstructedDespiteErrorStatus ==
    (rq.pc # "constructing" /\ rq.health \in ErrorStatus) =>
        (Constructed /\ ~rq.healthy /\ FailsThroughRetryPath)

\* C27 witness: constructed on an error status, then a call failed on all attempts
C27_Witness ==
    /\ rq.pc = "called"
    /\ rq.health \in ErrorStatus
    /\ AllTriesFail(rq.tries)
    /\ rq.result.returned = FALSE

\* C28: when the controller cannot be reached at construction the constructor raises
\* at once; no controller object exists and no call is ever made on one.
C28_UnreachableIsFatal ==
    (rq.pc # "constructing" /\ rq.health \in Unreachable) =>
        (rq.pc = "failed" /\ rq.raised = "ConnectionError")

\* C28 witness: the connection was refused and the constructor has raised
C28_Witness ==
    /\ rq.pc = "failed"
    /\ rq.health = "refused"
    /\ rq.raised = "ConnectionError"

(***************************************************************************)
(* The cleanup thread beside the callers of the engine.  cleanup_loop and  *)
(* _cleanup_expired_blocks take no lock, so the thread is modelled step by *)
(* step: the scan of blocked_ips, then for each expired address the check  *)
(* and the controller call of unblock_ip, then the del.  rq is the state   *)
(* of the thread; an exception leaves cleanup_loop, which catches none,    *)
(* and ends the thread.  The callers' operations run to their return.      *)
(***************************************************************************)
SweepConfidences == {500, 900}

Sleeping == [pc |-> "sleeping"]

SweepInit ==
    /\ now = 0
    /\ blocked_ips = EmptyDict
    /\ mitigation_history = <<>>
    /\ auto_unblock = TRUE
    /\ rules = {}
    /\ WorkersIdle /\ GatewayIdle /\ CacheIdle /\ RateIdle /\ FeedbackIdle
    /\ dq = NoDecision
    /\ rq = Sleeping

SweepOthers == <<workerVars, gatewayVars, cacheVars, rateVars, feedbackVars, dq>>

SweepTick ==
    /\ now < MaxTime
    /\ now' = now + 1
    /\ UNCHANGED <<blocked_ips, mitigation_history, auto_unblock, rules, rq, SweepOthers>>

\* a caller's execute_mitigation for a ddos event
CallerExecute ==
    \E ip \in ValidIPs, conf \in SweepConfidences, outcome \in Outcomes :
        LET r == execute_mitigation(blocked_ips, mitigation_history, rules, now,
                                    ip, "ddos", conf, "eMBB", 500, outcome)
        IN  /\ Len(r.history) <= MaxHistLen
            /\ ip \in DOMAIN blocked_ips /\ "packets_blocked" \in DOMAIN blocked_ips[ip]
                   => blocked_ips[ip].packets_blocked < MaxPackets
            /\ blocked_ips' = r.blocked
            /\ mitigation_history' = r.history
            /\ rules' = r.rules
    /\ UNCHANGED <<now, auto_unblock, rq, SweepOthers>>

\* a caller's unblock_ip
CallerUnblock ==
    \E ip \in ValidIPs, outcome \in Outcomes :
        LET r == EngineUnblockIp(blocked_ips, rules, ip, outcome)
        IN  /\ blocked_ips' = r.blocked
            /\ rules' = r.rules
    /\ UNCHANGED <<now, mitigation_history, auto_unblock, rq, SweepOthers>>

\* now = time.time(), and the list comprehension starts to iterate over
\* self.blocked_ips.items()
SweepBeginScan ==
    /\ rq.pc = "sleeping"
    /\ rq' = [pc |-> "scanning", t |-> now, size |-> Cardinality(DOMAIN blocked_ips)]
    /\ UNCHANGED <<engineVars, SweepOthers>>

\* the iteration comes to its end: expired holds the addresses found expired;
\* selected remembers the timestamp of the record each was selected for
SweepEndScan ==
    /\ rq.pc = "scanning"
    /\ LET expired == Expired(blocked_ips, rq.t, auto_unblock)
       IN  rq' = [pc |-> "unblocking", todo |-> expired,
                  selected |-> [ip \in expired |-> blocked_ips[ip].timestamp]]
    /\ UNCHANGED <<engineVars, SweepOthers>>

\* a caller has added or deleted a record during the iteration: RuntimeError
\* (dictionary changed size during iteration)
SweepScanRaises ==
    /\ rq.pc = "scanning"
    /\ Cardinality(DOMAIN blocked_ips) # rq.size
    /\ rq' = [pc |-> "dead", error |-> "RuntimeError"]
    /\ UNCHANGED <<engineVars, SweepOthers>>

\* unblock_ip(ip) for the next address of the loop, up to the controller call:
\* False at once without a record; a throttle record is deleted without a call
SweepUnblockCall ==
    /\ rq.pc = "unblocking"
    /\ \E ip \in rq.todo :
        IF ip \notin DOMAIN blocked_ips
        THEN /\ rq' = [rq EXCEPT !.todo = @ \ {ip}]
             /\ UNCHANGED blocked_ips
        ELSE IF RecordAction(blocked_ips[ip]) = "blocked"
        THEN /\ rq' = [pc |-> "calling", todo |-> rq.todo, selected |-> rq.selected,
                       ip |-> ip]
             /\ UNCHANGED blocked_ips
        ELSE /\ rq' = [rq EXCEPT !.todo = @ \ {ip}]
             /\ blocked_ips' = Del(blocked_ips, ip)
    /\ UNCHANGED <<now, mitigation_history, auto_unblock, rules, SweepOthers>>

\* the controller call of unblock_ip returns: on success 'del self.blocked_ips[ip]',
\* KeyError if a caller has deleted the record meanwhile
SweepUnblockReturn(outcome) ==
    /\ rq.pc = "calling"
    /\ rules' = RyuDelete(rules, rq.ip, outcome)
    /\ IF ~SdnUnblockIp(outcome)
       THEN /\ rq' = [pc |-> "unblocking", todo |-> rq.todo \ {rq.ip},
                      selected |-> rq.selected]
            /\ UNCHANGED blocked_ips
       ELSE IF rq.ip \in DOMAIN blocked_ips
       THEN /\ rq' = [pc |-> "unblocking", todo |-> rq.todo \ {rq.ip},
                      selected |-> rq.selected]
            /\ blocked_ips' = Del(blocked_ips, rq.ip)
       ELSE /\ rq' = [pc |-> "dead", error |-> "KeyError"]
            /\ UNCHANGED blocked_ips
    /\ UNCHANGED <<now, mitigation_history, auto_unblock, SweepOthers>>

\* the trim of the history, and time.sleep(check_interval)
SweepFinish ==
    /\ rq.pc = "unblocking"
    /\ rq.todo = {}
    /\ mitigation_history' = TrimHistory(mitigation_history)
    /\ rq' = Sleeping
    /\ UNCHANGED <<now, blocked_ips, auto_unblock, rules, SweepOthers>>

\* the steps of the cleanup thread
SweepThread ==
    \/ SweepBeginScan \/ SweepEndScan \/ SweepScanRaises
    \/ SweepUnblockCall \/ (\E outcome \in Outcomes : SweepUnblockReturn(outcome))
    \/ SweepFinish

SweepNext == SweepTick \/ CallerExecute \/ CallerUnblock \/ SweepThread

SweepSpec == SweepInit /\ [][SweepNext]_vars

\* the cleanup thread takes every step it can, and a controller that is asked again
\* and again accepts a removal in the end
SweepFairSpec ==
    SweepSpec /\ WF_vars(SweepThread) /\ SF_vars(SweepUnblockReturn("ok200"))

\* a step of the cleanup thread inside its loop over the expired addresses
SweepLoopStep == rq.pc \in {"unblocking", "calling"} /\ rq' # rq

\* C29: the cleanup thread deletes a record, or removes the rule of an address that
\* has a record, only if that record is the one it selected as expired: a record
\* created after the selection and its rule survive.
C29_SweepSparesFresh ==
    [][ \A ip \in ValidIPs :
            (SweepLoopStep /\ ip \in DOMAIN blocked_ips) =>
                /\ ip \notin DOMAIN blocked_ips' => blocked_ips[ip].timestamp = rq.selected[ip]
                /\ (HasRule(rules, ip) /\ ~HasRule(rules', ip))
                       => blocked_ips[ip].timestamp = rq.selected[ip] ]_vars

HasExpired(ip) ==
    ip \in DOMAIN blocked_ips /\ now - blocked_ips[ip].timestamp > block_duration

\* C30: a record that has expired does not stay: the cleanup thread comes round
\* again after a failed removal, and once the controller accepts, the record is
\* deleted.
C30_ExpiredEventuallyDeleted ==
    \A ip \in ValidIPs : HasExpired(ip) ~> ~HasExpired(ip)

\* What holds of a failed removal: the record and its rule stay as they are.
FailedRemovalKeepsRecord ==
    [][ (rq.pc = "calling" /\ SweepUnblockReturn("error")) =>
            (blocked_ips' = blocked_ips /\ rules' = rules /\ rq'.pc = "unblocking") ]_vars

(***************************************************************************)
(* The cleanup thread of PerformanceCache beside a caller of get and set.  *)
(* All three take self.lock for their whole body; the thread's body is     *)
(* modelled step by step (the read of the clock with the scan of           *)
(* access_times, then one del per expired key) so that the lock is what    *)
(* keeps the caller out.  rq holds the lock's owner, the thread's place    *)
(* and locals, and the caller's pending call.                              *)
(***************************************************************************)
\* a thread that takes the lock although another thread holds it
AcquirableUnlocked(owner, thread) == TRUE

\* threading.RLock: free, or already held by the thread that asks
Acquirable(owner, thread) == owner \in {"free", thread}

NoSweep == [pc |-> "sleep", current_time |-> 0, expired_keys |-> <<>>,
            before_cache |-> EmptyDict, before_times |-> <<>>]
NoCall == [pc |-> "idle", op |-> "-", key |-> "-", value |-> "-"]

\* the list comprehension of _cleanup_expired: the keys, in dict order, whose
\* access time lies more than ttl before current_time
expired_keys(a, current_time) ==
    LET old == SelectSeq(a, LAMBDA e : current_time - e[2] > ttl)
    IN  [i \in 1..Len(old) |-> old[i][1]]

LockInit ==
    /\ now = 0
    /\ blocked_ips = EmptyDict
    /\ mitigation_history = <<>>
    /\ auto_unblock = TRUE
    /\ rules = {}
    /\ cache = EmptyDict
    /\ access_times = <<>>
    /\ fresh = EmptyDict
    /\ WorkersIdle /\ GatewayIdle /\ RateIdle /\ FeedbackIdle
    /\ dq = NoDecision
    /\ rq = [lock |-> "free", sweep |-> NoSweep, caller |-> NoCall]

LockOthers == <<fresh, engineVarsButNow, workerVars, gatewayVars, rateVars, feedbackVars, dq>>

LockTick ==
    /\ now < MaxCacheTime
    /\ now' = now + 1
    /\ UNCHANGED <<cache, access_times, rq, LockOthers>>

\* time.sleep(self.ttl) is over; with self.lock:
SweeperAcquire ==
    /\ rq.sweep.pc = "sleep"
    /\ Acquirable(rq.lock, "sweep")
    /\ rq' = [rq EXCEPT !.lock = "sweep",
                        !.sweep = [NoSweep EXCEPT !.pc = "scan",
                                                  !.before_cache = cache,
                                                  !.before_times = access_times]]
    /\ UNCHANGED <<now, cache, access_times, LockOthers>>

\* current_time = time.time(); expired_keys = [...]
SweeperScan ==
    /\ rq.sweep.pc = "scan"
    /\ rq' = [rq EXCEPT !.sweep.pc = "delete",
                        !.sweep.current_time = now,
                        !.sweep.expired_keys = expired_keys(access_times, now)]
    /\ UNCHANGED <<now, cache, access_times, LockOthers>>

\* for key in expired_keys: del self.cache[key]; del self.access_times[key].
\* A key that is gone raises KeyError: the with statement releases the lock
\* and _cleanup_loop, which catches nothing, ends.
SweeperDelete ==
    /\ rq.sweep.pc = "delete"
    /\ rq.sweep.expired_keys # <<>>
    /\ LET key == Head(rq.sweep.expired_keys)
       IN  IF key \in DOMAIN cache
           THEN /\ cache' = Del(cache, key)
                /\ access_times' = RemoveKey(access_times, key)
                /\ rq' = [rq EXCEPT !.sweep.expired_keys = Tail(rq.sweep.expired_keys)]
           ELSE /\ rq' = [rq EXCEPT !.sweep.pc = "dead",
                                    !.lock = IF rq.lock = "sweep" THEN "free" ELSE rq.lock]
                /\ UNCHANGED <<cache, access_times>>
    /\ UNCHANGED <<now, LockOthers>>

\* the loop over expired_keys is through: the sweep has done its work and
\* still holds the lock
SweeperSwept ==
    /\ rq.sweep.pc = "delete"
    /\ rq.sweep.expired_keys = <<>>
    /\ rq' = [rq EXCEPT !.sweep.pc = "swept"]
    /\ UNCHANGED <<now, cache, access_times, LockOthers>>

\* the with block is left; back to time.sleep(self.ttl)
SweeperRelease ==
    /\ rq.sweep.pc = "swept"
    /\ rq' = [rq EXCEPT !.sweep = NoSweep,
                        !.lock = IF rq.lock = "sweep" THEN "free" ELSE rq.lock]
    /\ UNCHANGED <<now, cache, access_times, LockOthers>>

\* a thread calls get(key) or set(key, value) and enters `with self.lock:`
CallerAcquire ==
    /\ rq.caller.pc = "idle"
    /\ Acquirable(rq.lock, "caller")
    /\ \E op \in {"get", "set"}, k \in Keys, v \in Values :
        /\ op = "get" => v = "v1"
        /\ rq' = [rq EXCEPT !.lock = "caller",
                            !.caller = [pc |-> "locked", op |-> op, key |-> k, value |-> v]]
    /\ UNCHANGED <<now, cache, access_times, LockOthers>>

\* the body of get or set, and the release of the lock
CallerRun ==
    /\ rq.caller.pc = "locked"
    /\ LET r == IF rq.caller.op = "get"
                THEN get(cache, access_times, rq.caller.key, now)
                ELSE set(cache, access_times, rq.caller.key, rq.caller.value, now)
       IN  /\ cache' = r.cache
           /\ access_times' = r.access_times
    /\ rq' = [rq EXCEPT !.caller = NoCall,
                        !.lock = IF rq.lock = "caller" THEN "free" ELSE rq.lock]
    /\ UNCHANGED <<now, LockOthers>>

LockNext ==
    \/ LockTick
    \/ SweeperAcquire \/ SweeperScan \/ SweeperDelete \/ SweeperSwept \/ SweeperRelease
    \/ CallerAcquire \/ CallerRun

LockSpec == LockInit /\ [][LockNext]_vars

\* the sweep is inside its with block
SweepInside == rq.sweep.pc \in {"scan", "delete", "swept"}

MaxCalls == 2
MaxAdjustments == 1

ManagerSizes == {100, 1200}
ManagerRates == {1, 250}
ManagerSignals ==
    {[given |-> FALSE, prediction |-> "-", confidence |-> 0],
     [given |-> TRUE, prediction |-> "ddos", confidence |-> 950],
     [given |-> TRUE, prediction |-> "ddos", confidence |-> 800]}
Outcomes2 == {"normal", "ddos"}

\* 'timestamp' of the returned dictionary: datetime.now() where
\* _apply_slice_policy built it, no such key (-1) in the two signal branches
ReturnedTimestamp(result, t) == IF result.counted = {} THEN -1 ELSE t

\* self.slice_performance[slice_name]['hits'] += 1
CountHit(hits, result) == [sl \in DOMAIN hits |-> hits[sl] + (IF sl \in result.counted THEN 1 ELSE 0)]

\* _is_correct_assignment(slice_assignment, actual_outcome)
is_correct_assignment(slice, actual_outcome) ==
    /\ ~(actual_outcome = "ddos" /\ slice # "QUARANTINE")
    /\ ~(actual_outcome = "normal" /\ slice = "QUARANTINE")

ManagerInit ==
    /\ now = 0
    /\ blocked_ips = EmptyDict
    /\ mitigation_history = <<>>
    /\ auto_unblock = TRUE
    /\ rules = {}
    /\ WorkersIdle /\ GatewayIdle /\ CacheIdle /\ RateIdle /\ FeedbackIdle
    /\ rq = NoRequest
    /\ dq = [hits |-> [sl \in DOMAIN slice_definitions |-> 0],
             correct |-> [sl \in DOMAIN slice_definitions |-> 0],
             slice_adjustments |-> 0,
             calls |-> <<>>]

ManagerOthers == <<engineVarsButNow, workerVars, gatewayVars, cacheVars, rateVars,
                   feedbackVars, rq>>

ManagerTick ==
    /\ now < MaxStamp
    /\ now' = now + 1
    /\ UNCHANGED <<dq, ManagerOthers>>

\* manager.classify_slice_with_ml(packet_features, ml_prediction)
ManagerClassify ==
    /\ Len(dq.calls) < MaxCalls
    /\ \E packet_size \in ManagerSizes, packet_rate \in ManagerRates, ml \in ManagerSignals :
        LET result == classify_slice_with_ml(packet_size, packet_rate, "TCP", FALSE, ml)
        IN  dq' = [dq EXCEPT
                     !.hits = CountHit(dq.hits, result),
                     !.calls = Append(dq.calls,
                                      [packet_size |-> packet_size, packet_rate |-> packet_rate,
                                       ml |-> ml, result |-> result,
                                       timestamp |-> ReturnedTimestamp(result, now)])]
    /\ UNCHANGED <<now, ManagerOthers>>

\* manager.learn_from_feedback(slice_assignment, ml_prediction, actual_outcome) for
\* an assignment returned earlier: the adjustment is appended, then the correct
\* counter of the slice goes up (slice_performance has no QUARANTINE entry: for a
\* correct quarantine the += raises KeyError after the append)
ManagerLearn ==
    /\ dq.slice_adjustments < MaxAdjustments
    /\ \E i \in 1..Len(dq.calls), actual_outcome \in Outcomes2 :
        LET slice == dq.calls[i].result.slice
        IN  dq' = [dq EXCEPT
                     !.slice_adjustments = @ + 1,
                     !.correct = [sl \in DOMAIN dq.correct |->
                                     dq.correct[sl]
                                     + (IF sl = slice /\ is_correct_assignment(slice, actual_outcome)
                                        THEN 1 ELSE 0)]]
    /\ UNCHANGED <<now, ManagerOthers>>

ManagerNext == ManagerTick \/ ManagerClassify \/ ManagerLearn

ManagerSpec == ManagerInit /\ [][ManagerNext]_vars

\* two calls made with the same features and the same signal
SameInputs(a, b) ==
    /\ a.packet_size = b.packet_size
    /\ a.packet_rate = b.packet_rate
    /\ a.ml = b.ml

DropRule(ip) == <<ip, BLOCK_PRIORITY>>

\* C36: after any sequence of execute_mitigation, block_ip, unblock_ip and sweep
\* calls made one at a time, with a controller whose every request either takes
\* effect and is answered with success or has no effect and fails, an identity
\* has a block record exactly when its drop rule is in the flow table.
C36_RecordIffRule ==
    \A ip \in IPs : HasBlockRecord(blocked_ips, ip) <=> DropRule(ip) \in rules

\* C36 witness: one identity is blocked and has its rule, the other is throttled
\* and has none, and the history shows both decisions
C36_Witness ==
    /\ HasBlockRecord(blocked_ips, "10.0.0.1") /\ DropRule("10.0.0.1") \in rules
    /\ "10.0.0.2" \in DOMAIN blocked_ips
    /\ RecordAction(blocked_ips["10.0.0.2"]) = "throttled"
    /\ DropRule("10.0.0.2") \notin rules
    /\ now > 0

\* the keys get_blocked_ips reads with d[...]; slice_type and action are read
\* with d.get
ReportedKeys == {"timestamp", "reason", "confidence", "packets_blocked", "last_seen"}

\* get_blocked_ips(): one entry per record, or the KeyError of the first record
\* that lacks a key the comprehension subscripts
get_blocked_ips(b) ==
    IF \E ip \in DOMAIN b : ~(ReportedKeys \subseteq DOMAIN b[ip])
    THEN [raised |-> "KeyError", entries |-> EmptyDict]
    ELSE [raised |-> "none",
          entries |-> [ip \in DOMAIN b |->
                          [ip |-> ip, timestamp |-> b[ip].timestamp, reason |-> b[ip].reason,
                           confidence |-> b[ip].confidence,
                           packets_blocked |-> b[ip].packets_blocked,
                           last_seen |-> b[ip].last_seen,
                           slice_type |-> IF "slice_type" \in DOMAIN b[ip]
                                          THEN b[ip].slice_type ELSE "unknown",
                           action |-> RecordAction(b[ip])]]]

\* C37: in every state the engine reaches, get_blocked_ips returns, with one
\* entry for every record, made by a block or by a throttle, and is_ip_blocked
\* returns for every identity.
C37_ReportingTotal ==
    /\ get_blocked_ips(blocked_ips).raised = "none"
    /\ DOMAIN get_blocked_ips(blocked_ips).entries = DOMAIN blocked_ips
    /\ \A ip \in IPs : ~IsIpBlockedRaises(blocked_ips, ip)

\* What the reporting does: while every record was made by a block both
\* operations return, get_blocked_ips with one entry per record; once a record
\* made by a throttle exists get_blocked_ips raises, and is_ip_blocked raises
\* for exactly the throttled identities.
ReportingTotalOverBlocks ==
    LET throttled == {ip \in DOMAIN blocked_ips : RecordAction(blocked_ips[ip]) = "throttled"}
    IN  /\ throttled = {} =>
              /\ get_blocked_ips(blocked_ips).raised = "none"
              /\ DOMAIN get_blocked_ips(blocked_ips).entries = DOMAIN blocked_ips
        /\ throttled # {} => get_blocked_ips(blocked_ips).raised = "KeyError"
        /\ \A ip \in IPs : IsIpBlockedRaises(blocked_ips, ip) <=> ip \in throttled

(***************************************************************************)
(* Packet capture of app.py: the global `running`, the /start-capture and  *)
(* /stop-capture endpoints and the threads started on capture_loop.  sniff *)
(* calls packet_handler and then stop_filter for every packet it sees, so  *)
(* a thread notices `running = False` only at its next packet.  rq holds   *)
(* `running`, the place of every thread started so far and the answer of   *)
(* the last request; each endpoint runs to its return.                     *)
(***************************************************************************)
MaxCaptureThreads == 3

\* the threads started so far that have not left capture_loop
LiveThreads == {t \in 1..Len(rq.threads) : rq.threads[t] # "exited"}

\* the threads inside packet_handler, past its `if not running: return`
HandlingThreads == {t \in 1..Len(rq.threads) : rq.threads[t] = "handling"}

CaptureInit ==
    /\ now = 0
    /\ blocked_ips = EmptyDict
    /\ mitigation_history = <<>>
    /\ auto_unblock = TRUE
    /\ rules = {}
    /\ WorkersIdle /\ GatewayIdle /\ CacheIdle /\ RateIdle /\ FeedbackIdle
    /\ dq = NoDecision
    /\ rq = [running |-> FALSE, threads |-> <<>>,
             last |-> [status |-> "none", spawned |-> FALSE, live_before |-> 0]]

CaptureOthers == <<engineVars, workerVars, gatewayVars, cacheVars, rateVars, feedbackVars, dq>>

\* POST /start-capture
StartCapture ==
    /\ Len(rq.threads) < MaxCaptureThreads
    /\ rq' = IF rq.running
             THEN [rq EXCEPT !.last = [status |-> "already_running", spawned |-> FALSE,
                                       live_before |-> Cardinality(LiveThreads)]]
             ELSE [rq EXCEPT !.running = TRUE,
                             !.threads = Append(rq.threads, "sniffing"),
                             !.last = [status |-> "capturing", spawned |-> TRUE,
                                       live_before |-> Cardinality(LiveThreads)]]
    /\ UNCHANGED CaptureOthers

\* POST /stop-capture
StopCapture ==
    /\ rq' = [rq EXCEPT !.running = FALSE,
                        !.last = [status |-> "stopped", spawned |-> FALSE,
                                  live_before |-> Cardinality(LiveThreads)]]
    /\ UNCHANGED CaptureOthers

\* sniff hands a packet to packet_handler, which finds `running` set
PacketBegin(t) ==
    /\ rq.threads[t] = "sniffing"
    /\ rq.running
    /\ rq' = [rq EXCEPT !.threads[t] = "handling"]
    /\ UNCHANGED CaptureOthers

\* packet_handler returns; stop_filter then ends sniff if `running` is unset, and
\* the finally clause of capture_loop unsets it (again)
PacketEnd(t) ==
    /\ rq.threads[t] = "handling"
    /\ rq' = IF rq.running THEN [rq EXCEPT !.threads[t] = "sniffing"]
             ELSE [rq EXCEPT !.threads[t] = "exited", !.running = FALSE]
    /\ UNCHANGED CaptureOthers

\* a packet arrives with `running` unset: packet_handler returns at once,
\* stop_filter ends sniff, finally: running = False
PacketAfterStop(t) ==
    /\ rq.threads[t] = "sniffing"
    /\ ~rq.running
    /\ rq' = [rq EXCEPT !.threads[t] = "exited", !.running = FALSE]
    /\ UNCHANGED CaptureOthers

\* sniff raises (no such interface, no permission): except logs it, finally:
\* running = False
CaptureCrash(t) ==
    /\ rq.threads[t] = "sniffing"
    /\ rq' = [rq EXCEPT !.threads[t] = "exited", !.running = FALSE]
    /\ UNCHANGED CaptureOthers

CaptureThread(t) == PacketBegin(t) \/ PacketEnd(t) \/ PacketAfterStop(t) \/ CaptureCrash(t)

CaptureNext ==
    \/ StartCapture
    \/ StopCapture
    \/ \E t \in 1..Len(rq.threads) : CaptureThread(t)

CaptureSpec == CaptureInit /\ [][CaptureNext]_vars

\* C39: at no time are two capture threads handling packets, whatever starts and
\* stops were requested before; and a start that found the capture running
\* answered already_running and started no thread.
C39_OneCaptureWorker ==
    /\ Cardinality(HandlingThreads) <= 1
    /\ rq.last.status = "already_running" => ~rq.last.spawned

\* What the endpoints keep: a start that answers already_running has started no
\* thread, a start that answers capturing has started one, and while `running`
\* is set some thread is alive.  The start looks at the flag, never at the
\* threads.
StartChecksFlagOnly ==
    /\ rq.last.status = "already_running" => ~rq.last.spawned
    /\ rq.last.status = "capturing" => rq.last.spawned
    /\ rq.running => LiveThreads # {}

(***************************************************************************)
(* The history list under the cleanup thread and a decision path.  The     *)
(* trim of _cleanup_expired_blocks builds a new list and rebinds           *)
(* self.mitigation_history to it; execute_mitigation loads the list, works *)
(* out the entry (time.time(), a copy of flow_info) and then appends to    *)
(* the list it loaded.  Neither takes a lock.  rq holds every list object  *)
(* built so far (heap), the one the attribute is bound to (attr), the      *)
(* place of every thread and the entries appended so far, in order;        *)
(* mitigation_history is the list the attribute is bound to.  An entry is  *)
(* its number.                                                             *)
(***************************************************************************)
MaxAppends == 5
MaxTrims == 3

\* the threads inside execute_mitigation
Paths == {"p1", "p2"}

\* self.mitigation_history[-self.config['max_history']:]
LastEntries(h) == SubSeq(h, Len(h) - max_history + 1, Len(h))

RaceInit ==
    /\ now = 0
    /\ blocked_ips = EmptyDict
    /\ mitigation_history = <<>>
    /\ auto_unblock = TRUE
    /\ rules = {}
    /\ WorkersIdle /\ GatewayIdle /\ CacheIdle /\ RateIdle /\ FeedbackIdle
    /\ dq = NoDecision
    /\ rq = [heap |-> << <<>> >>, attr |-> 1,
             sweep |-> [pc |-> "idle", slice |-> <<>>],
             path |-> [p \in Paths |-> [pc |-> "idle", ref |-> 0]],
             appended |-> <<>>]

RaceOthers == <<now, blocked_ips, auto_unblock, rules, workerVars, gatewayVars, cacheVars,
                rateVars, feedbackVars, dq>>

\* self.mitigation_history.append({...}): the attribute is read first
AppendLoad(p) ==
    /\ rq.path[p].pc = "idle"
    /\ Len(rq.appended) + Cardinality({q \in Paths : rq.path[q].pc = "loaded"}) < MaxAppends
    /\ rq' = [rq EXCEPT !.path[p] = [pc |-> "loaded", ref |-> rq.attr]]
    /\ UNCHANGED <<mitigation_history, RaceOthers>>

\* ... and once the entry is built it is appended to the list that was read.
\* raced: the list is no longer the attribute's, or its trimmed copy is already
\* taken
AppendCommit(p) ==
    /\ rq.path[p].pc = "loaded"
    /\ LET entry == Len(rq.appended) + 1
           heap == [rq.heap EXCEPT ![rq.path[p].ref] = Append(@, entry)]
       IN  /\ rq' = [rq EXCEPT
                       !.heap = heap,
                       !.path[p] = [pc |-> "idle", ref |-> 0],
                       !.appended = Append(@, [entry |-> entry,
                                               raced |-> \/ rq.path[p].ref # rq.attr
                                                         \/ rq.sweep.pc = "sliced"])]
           /\ mitigation_history' = heap[rq.attr]
    /\ UNCHANGED RaceOthers

\* if len(self.mitigation_history) > self.config['max_history']:
TrimCheck ==
    /\ rq.sweep.pc = "idle"
    /\ Len(rq.heap) <= MaxTrims
    /\ Len(rq.heap[rq.attr]) > max_history
    /\ rq' = [rq EXCEPT !.sweep.pc = "checked"]
    /\ UNCHANGED <<mitigation_history, RaceOthers>>

\* the right-hand side: a new list of the last max_history entries
TrimSlice ==
    /\ rq.sweep.pc = "checked"
    /\ rq' = [rq EXCEPT !.sweep = [pc |-> "sliced", slice |-> LastEntries(rq.heap[rq.attr])]]
    /\ UNCHANGED <<mitigation_history, RaceOthers>>

\* self.mitigation_history = <the new list>
TrimStore ==
    /\ rq.sweep.pc = "sliced"
    /\ rq' = [rq EXCEPT !.heap = Append(@, rq.sweep.slice),
                        !.attr = Len(rq.heap) + 1,
                        !.sweep = [pc |-> "idle", slice |-> <<>>]]
    /\ mitigation_history' = rq.sweep.slice
    /\ UNCHANGED RaceOthers

DecisionPath(p) == AppendLoad(p) \/ AppendCommit(p)

RaceNext == (\E p \in Paths : DecisionPath(p)) \/ TrimCheck \/ TrimSlice \/ TrimStore

RaceSpec == RaceInit /\ [][RaceNext]_vars

\* the entry is in the engine's history
InHistory(entry) == \E i \in 1..Len(mitigation_history) : mitigation_history[i] = entry

\* the entries appended after entry
NewerThan(entry) == {i \in 1..Len(rq.appended) : rq.appended[i].entry > entry}

\* C40: with the sweep trimming while decision paths append, every entry
\* appended so far is in the history, or at least max_history entries were
\* appended after it.
C40_NoEntryLostToRace ==
    \A i \in 1..Len(rq.appended) :
        \/ InHistory(rq.appended[i].entry)
        \/ Cardinality(NewerThan(rq.appended[i].entry)) >= max_history

\* What holds: an entry missing from the history with fewer than max_history
\* newer ones was appended to a list the attribute had left, or between the
\* sweep's copy and its rebinding; the history itself keeps the order of
\* appending.
LostOnlyWhenRaced ==
    /\ \A i \in 1..Len(rq.appended) :
          (~InHistory(rq.appended[i].entry)
           /\ Cardinality(NewerThan(rq.appended[i].entry)) < max_history)
              => rq.appended[i].raced
    /\ \A i \in 1..Len(mitigation_history), j \in 1..Len(mitigation_history) :
          i < j => mitigation_history[i] < mitigation_history[j]
    /\ mitigation_history = rq.heap[rq.attr]

====
